---- MODULE Spec2Model ----
(***************************************************************************)
(* Model of the download-orchestration core of media-downloader-bot:       *)
(* the quota ledger (src/database/model.py), the result cache              *)
(* (src/database/cache.py), the delivery orchestrator and transfer engine  *)
(* (src/engine/base.py, direct.py, generic.py, tiktok.py) and the          *)
(* resume / cancellation tables (src/engine/base.py, src/main.py).         *)
(***************************************************************************)
EXTENDS Integers, Sequences, FiniteSets, TLC

(***************************************************************************)
(* Bounds of the model.                                                    *)
(***************************************************************************)
MaxFree == 1
MaxPaid == 1
MaxCredit == 1
MaxBandwidth == 2

Users == {1, 2}
Txns == {1, 2}
Contended == CHOOSE u \in Users : TRUE

(***************************************************************************)
(* Configuration (src/config is imported by model.py and base.py).         *)
(* Sizes are counted in an abstract unit in which the single-file delivery *)
(* limit is 2 and the hard ceiling is 4 (base.py:154 "files between 2-4GB  *)
(* will be split later").                                                  *)
(***************************************************************************)
ENABLE_VIP == TRUE
\* the owner's account is not one of the requesting Users of the request
\* specifications; the ledger specifications below name it
OWNER == {3}
FREE_DOWNLOAD == MaxFree
FREE_BANDWIDTH == 2
TG_NORMAL_MAX_SIZE == 2
MAX_DOWNLOAD_SIZE == 4

(***************************************************************************)
(* The User row (model.py:34-46): the columns the ledger operations touch. *)
(***************************************************************************)
Attrs == {"free", "paid", "bandwidth_used", "total_bandwidth", "is_blocked"}

User(f, p) ==
    [free |-> f, paid |-> p, bandwidth_used |-> 0, total_bandwidth |-> 0,
     is_blocked |-> 0]

VARIABLES
    users,                  \* the users table: user id -> User row
    txn,                    \* database sessions of ledger and cache operations
    req,                    \* the downloader object and position of each request
    cache,                  \* the video_cache table: cache_key -> entry
    cancellation_events,    \* base.py:38, keys of transfers flagged for cancel
    resume_state_cache,     \* base.py:41, state_hash -> resume snapshot
    callbacks,              \* resume_callback invocations (main.py:776-827)
    ytdlp_update_attempted, \* generic.py:23, the once-per-session flag
    youtube_url_cache,      \* main.py:51, url_hash -> URL of a quality prompt
    last_called,            \* helper.py:13, status message -> time of last edit
    lock,                   \* helper.py:14, the thread that holds the lock
    clock                   \* time.time(), in seconds

\* the module-level state outside the request engine
process == <<ytdlp_update_attempted, youtube_url_cache, last_called, lock, clock>>

vars == <<users, txn, req, cache, cancellation_events, resume_state_cache,
          callbacks, process>>

\* the process after start-up: no update attempted, no prompt, no edit
InitProcess ==
    /\ ytdlp_update_attempted = FALSE
    /\ youtube_url_cache = <<>>
    /\ last_called = <<>>
    /\ lock = 0
    /\ clock = 0

(***************************************************************************)
(* Requests.  Each request is one BaseDownloader object (base.py:62-79)    *)
(* with its own status message, handled on its own worker thread           *)
(* (main.py:57-63, workers = 64).                                          *)
(***************************************************************************)
Reqs == {1, 2}

\* The URLs of the model, one per fetch strategy, as character sequences.
YT == <<"y">>
DD == <<"d">>
TT == <<"t">>
Urls == {YT, DD, TT}

\* engine/__init__.py:17-64 and main.py:496-546: the downloader class a URL
\* is given to.
Strategy(url) ==
    IF url = YT THEN "youtube" ELSE IF url = DD THEN "direct" ELSE "tiktok"

\* Setting.format (model.py:57) values of the model's users, and the quality
\* buttons (main.py:515-523) a request can carry; "" is no selection.
Formats == {<<"video">>, <<"document">>}
Selections == {"", "720"}

\* get_quality_settings (model.py:113-119) of a user without a custom row
StoredQuality == <<"high">>

\* YoutubeDownload.__init__ (generic.py:221-234): the quality that feeds the
\* cache key
InitQuality(url, sel) ==
    IF Strategy(url) = "youtube" /\ sel # ""
    THEN StoredQuality \o <<":", sel>> ELSE StoredQuality

\* YoutubeDownload.__init__ (generic.py:230-231)
InitFormat(url, fmt, sel) ==
    IF Strategy(url) = "youtube" /\ sel = "audio" THEN <<"audio">> ELSE fmt

\* _calc_video_key (base.py:709-713): the digest is taken as injective on the
\* string it hashes, so the key is that string.
calc_video_key(url, quality, format) == url \o quality \o format

NewRequest ==
    [pc |-> "new", user |-> 0, url |-> <<>>, quality |-> <<>>, format |-> <<>>,
     fmt0 |-> <<>>, selected |-> "", formats |-> <<>>, idx |-> 0,
     extraction_error_encountered |-> FALSE, retry_after_update |-> FALSE,
     tempdir |-> {}, size |-> 0, chunks |-> 0, polled |-> FALSE, stopped |-> 0,
     \* history of the request
     row0 |-> User(0, 0), balance0 |-> 0, peers |-> {}, hit |-> FALSE,
     calls |-> 0, charged |-> 0, snapshots |-> 0,
     delivered |-> FALSE, transferred |-> FALSE, wrote |-> <<>>,
     cancel_pressed |-> FALSE, cancelled_early |-> FALSE,
     cancel_observed |-> FALSE, afterCancel |-> FALSE,
     aborted |-> "", afterAbort |-> FALSE, key |-> <<>>,
     \* the handler of main.py the request came through
     entry |-> "", route |-> "", via |-> "", exc |-> "",
     network |-> FALSE, replied |-> FALSE,
     \* what became of the copy and of the error report for the archive
     archived |-> "", reported |-> "",
     \* did the request's try_update_ytdlp go on to the upgrade
     attempted |-> FALSE,
     \* did a candidate of the chain end otherwise than by an extraction
     \* error: another exception, or no file and no exception
     other_failure |-> FALSE,
     error |-> ""]

Terminal == {"done", "failed", "denied"}

(***************************************************************************)
(* session_manager (model.py:100-110): a session reads the row, the        *)
(* operation assigns attributes on the loaded object, and the commit at    *)
(* the end of the with-block writes the attributes that changed.  A raise  *)
(* inside the block rolls back and writes nothing.                         *)
(***************************************************************************)
NoSession == [op |-> "none", uid |-> 0, size |-> 0, writes |-> {}, status |-> "idle"]

\* The UPDATE a flush emits: one <<user, column, value>> per changed column.
Dirty(uid, row, new) ==
    {<<uid, a, new[a]>> : a \in {b \in Attrs : new[b] # row[b]}}

session_manager(us, W) ==
    [u \in Users |->
        [a \in Attrs |->
            IF \E w \in W : w[1] = u /\ w[2] = a
            THEN (CHOOSE w \in W : w[1] = u /\ w[2] = a)[3]
            ELSE us[u][a]]]

(***************************************************************************)
(* check_quota (model.py:192-211): "ok" or the reason of the raise.        *)
(***************************************************************************)
\* a check that denies only above the cap comes first
check_quota_above_cap(us, uid) ==
    IF ~ENABLE_VIP THEN "ok"
    ELSE IF uid \in OWNER THEN "ok"
    ELSE IF uid \notin DOMAIN us THEN "ok"
    ELSE IF us[uid].is_blocked # 0 THEN "blocked"
    ELSE IF us[uid].free + us[uid].paid <= 0 THEN "exhausted"
    ELSE IF us[uid].bandwidth_used > FREE_BANDWIDTH THEN "bandwidth"
    ELSE "ok"

check_quota(us, uid) ==
    IF ~ENABLE_VIP THEN "ok"
    ELSE IF uid \in OWNER THEN "ok"
    ELSE IF uid \notin DOMAIN us THEN "ok"          \* "if data:" is false
    ELSE IF us[uid].is_blocked # 0 THEN "blocked"
    ELSE IF us[uid].free + us[uid].paid <= 0 THEN "exhausted"
    ELSE IF us[uid].bandwidth_used >= FREE_BANDWIDTH THEN "bandwidth"
    ELSE "ok"

(***************************************************************************)
(* use_quota (model.py:214-227) on a loaded row: whether it raises, and    *)
(* the row after the assignment.                                           *)
(***************************************************************************)
use_quota_paid_first(row) ==
    IF row.paid > 0
    THEN [raised |-> FALSE, row |-> [row EXCEPT !.paid = @ - 1]]
    ELSE IF row.free > 0
    THEN [raised |-> FALSE, row |-> [row EXCEPT !.free = @ - 1]]
    ELSE [raised |-> TRUE, row |-> row]

use_quota_unguarded(row) ==
    IF row.free > 0
    THEN [raised |-> FALSE, row |-> [row EXCEPT !.free = @ - 1]]
    ELSE [raised |-> FALSE, row |-> [row EXCEPT !.paid = @ - 1]]

use_quota(row) ==
    IF row.free > 0
    THEN [raised |-> FALSE, row |-> [row EXCEPT !.free = @ - 1]]
    ELSE IF row.paid > 0
    THEN [raised |-> FALSE, row |-> [row EXCEPT !.paid = @ - 1]]
    ELSE [raised |-> TRUE, row |-> row]

\* add_paid_quota (model.py:182-189) / credit_account (model.py:265-284)
add_paid_quota(row, amount) == [row EXCEPT !.paid = @ + amount]

\* add_bandwidth_used (model.py:252-262)
add_bandwidth_used(row, size) ==
    [row EXCEPT !.bandwidth_used = @ + size, !.total_bandwidth = @ + size]

\* reset_free (model.py:243-249), the assignment made to every row
reset_free(row) == [row EXCEPT !.free = FREE_DOWNLOAD, !.bandwidth_used = 0]

(***************************************************************************)
(* Ledger operations as sessions: Begin reads and assigns, Commit writes.  *)
(***************************************************************************)
BeginUseQuota(t, uid) ==
    /\ txn[t].status # "open"
    /\ LET new == use_quota(users[uid]) IN
         txn' = [txn EXCEPT ![t] =
                   IF new.raised
                   THEN [op |-> "use_quota", uid |-> uid, size |-> 0, writes |-> {},
                         status |-> "raised"]
                   ELSE [op |-> "use_quota", uid |-> uid, size |-> 0,
                         writes |-> Dirty(uid, users[uid], new.row),
                         status |-> "open"]]
    /\ UNCHANGED <<users, req, cache, cancellation_events, resume_state_cache, callbacks, process>>

BeginAddPaidQuota(t, uid, amount) ==
    /\ txn[t].status # "open"
    /\ users[uid].paid + amount <= MaxPaid
    /\ txn' = [txn EXCEPT ![t] =
                 [op |-> "add_paid_quota", uid |-> uid, size |-> 0,
                  writes |-> Dirty(uid, users[uid],
                                   add_paid_quota(users[uid], amount)),
                  status |-> "open"]]
    /\ UNCHANGED <<users, req, cache, cancellation_events, resume_state_cache, callbacks, process>>

BeginAddBandwidthUsed(t, uid, size) ==
    /\ txn[t].status # "open"
    /\ users[uid].total_bandwidth + size <= MaxBandwidth
    /\ txn' = [txn EXCEPT ![t] =
                 [op |-> "add_bandwidth_used", uid |-> uid, size |-> size,
                  writes |-> Dirty(uid, users[uid],
                                   add_bandwidth_used(users[uid], size)),
                  status |-> "open"]]
    /\ UNCHANGED <<users, req, cache, cancellation_events, resume_state_cache, callbacks, process>>

BeginResetFree(t) ==
    /\ txn[t].status # "open"
    /\ txn' = [txn EXCEPT ![t] =
                 [op |-> "reset_free", uid |-> 0, size |-> 0,
                  writes |-> UNION {Dirty(u, users[u], reset_free(users[u]))
                                      : u \in Users},
                  status |-> "open"]]
    /\ UNCHANGED <<users, req, cache, cancellation_events, resume_state_cache, callbacks, process>>

\* check_quota in its own read-only session
CheckQuota(t, uid) ==
    /\ txn[t].status # "open"
    /\ txn' = [txn EXCEPT ![t] =
                 [op |-> "check_quota", uid |-> uid, size |-> 0, writes |-> {},
                  status |-> IF check_quota(users, uid) = "ok"
                             THEN "passed" ELSE "raised"]]
    /\ UNCHANGED <<users, req, cache, cancellation_events, resume_state_cache, callbacks, process>>

\* the commit at the end of the with-block; the session is closed
Commit(t) ==
    /\ txn[t].status = "open"
    /\ users' = session_manager(users, txn[t].writes)
    /\ txn' = [txn EXCEPT ![t].status = "committed", ![t].writes = {}]
    /\ UNCHANGED <<req, cache, cancellation_events, resume_state_cache, callbacks, process>>

(***************************************************************************)
(* The delivery orchestrator, BaseDownloader.start (base.py:715-763), one  *)
(* action per step of a request.                                           *)
(***************************************************************************)
MaxSize == 3
\* Sizes a source can advertise: within the single-file limit, between the
\* limit and the hard ceiling, and (with a larger bound) above the ceiling.
Sizes == {2 * k : k \in 1..MaxSize}

\* use_quota_dynamic is imported by base.py:31 and called at base.py:98 but
\* is not defined in model.py: it is taken from the ledger contract, one
\* unit from the free allowance first, then from the paid balance, a raise
\* when both are zero.
use_quota_dynamic(row, file_sizes) == use_quota(row)

\* _record_usage (base.py:84-108) on the users table
record_usage(us, uid, total_size) ==
    LET row == us[uid]
        used == use_quota_dynamic(row, total_size)
    IN  IF row.free + row.paid < 0 \/ used.raised
        THEN [raised |-> TRUE, users |-> us]
        ELSE [raised |-> FALSE,
              users |-> [us EXCEPT ![uid] =
                            IF total_size > 0
                            THEN add_bandwidth_used(used.row, total_size)
                            ELSE used.row]]

\* d[k] = v on a table with one row per key (base.py:209; the unique
\* cache_key column of cache.py:18)
store(d, k, v) == [j \in DOMAIN d \cup {k} |-> IF j = k THEN v ELSE d[j]]

\* mapping.get(k, default) (cache.py:57-64)
Get(mapping, k, default) ==
    IF k \in DOMAIN mapping THEN mapping[k] ELSE default

\* the empty dict get_cache returns for a miss (cache.py:86)
Miss == <<>>

\* Redis.add_cache (cache.py:51-73) when nothing goes wrong: the row is
\* created or its columns are overwritten.  A put that keeps the first row
\* of a key comes first.
add_cache_if_absent(c, key, mapping) ==
    IF key \in DOMAIN c THEN c
    ELSE store(c, key, [file_id |-> Get(mapping, "file_id", "[]"),
                        meta    |-> Get(mapping, "meta", "{}")])

add_cache(c, key, mapping) ==
    store(c, key, [file_id |-> Get(mapping, "file_id", "[]"),
                   meta    |-> Get(mapping, "meta", "{}")])

\* Redis.get_cache (cache.py:75-91): the dict built from the row, or {}
get_cache(c, key) ==
    IF key \in DOMAIN c
    THEN [file_id |-> c[key].file_id, meta |-> c[key].meta]
    ELSE Miss

\* Redis.delete_cache (cache.py:93-107): the table afterwards
delete_cache(c, key) == [k \in DOMAIN c \ {key} |-> c[k]]

\* the media files of the working directory and their total size
\* (base.py:729-730)
MediaFiles(dir) == dir \cap {"media"}
FileSizes(r) == IF MediaFiles(req[r].tempdir) = {} THEN 0 ELSE req[r].size

\* __init__ and check_quota (base.py:63-79, 717)
Start(r, u, url, fmt, sel) ==
    /\ req[r].pc = "new"
    /\ \A q \in Reqs : q < r => req[q].pc # "new"
    /\ Strategy(url) # "youtube" => sel = ""
    /\ req' = [req EXCEPT ![r] =
                 [@ EXCEPT !.pc = IF check_quota(users, u) = "ok"
                                  THEN "lookup" ELSE "denied",
                           !.error = IF check_quota(users, u) = "ok"
                                     THEN "" ELSE check_quota(users, u),
                           !.user = u, !.url = url, !.fmt0 = fmt,
                           !.selected = sel,
                           !.quality = InitQuality(url, sel),
                           !.format = InitFormat(url, fmt, sel),
                           !.row0 = users[u],
                           !.balance0 = users[u].free + users[u].paid,
                           !.peers = {q \in Reqs : req[q].pc = "done"
                                                    /\ req[q].delivered}]]
    /\ UNCHANGED <<users, txn, cache, cancellation_events, resume_state_cache, callbacks, process>>

\* _get_video_cache (base.py:719, 706-707)
Lookup(r) ==
    /\ req[r].pc = "lookup"
    /\ LET key == calc_video_key(req[r].url, req[r].quality, req[r].format)
       IN  req' = [req EXCEPT ![r].hit = get_cache(cache, key) # Miss,
                              ![r].key = key,
                              ![r].pc = IF get_cache(cache, key) # Miss
                                        THEN "hit_record" ELSE "start"]
    /\ UNCHANGED <<users, txn, cache, cancellation_events, resume_state_cache, callbacks, process>>

\* the _record_usage call of a step: the ledger and the request's history
Charge(r, total_size, next) ==
    LET res == record_usage(users, req[r].user, total_size) IN
    /\ users' = res.users
    /\ req' = [req EXCEPT
                 ![r].calls = @ + 1,
                 ![r].charged = IF res.raised THEN @ ELSE @ + 1,
                 ![r].error = IF res.raised THEN "quota" ELSE @,
                 ![r].pc = IF res.raised THEN "failed" ELSE next]

\* cache hit: self._record_usage(0) (base.py:724)
HitRecord(r) ==
    /\ req[r].pc = "hit_record"
    /\ Charge(r, 0, "upload")
    /\ UNCHANGED <<txn, cache, cancellation_events, resume_state_cache, callbacks, process>>

\* cache miss: self._record_usage(file_sizes) after _start has returned
\* (base.py:727-733)
Record(r) ==
    /\ req[r].pc = "record"
    /\ Charge(r, FileSizes(r), "done")
    /\ UNCHANGED <<txn, cache, cancellation_events, resume_state_cache, callbacks, process>>

(***************************************************************************)
(* DirectDownload (direct.py).  A stream is read in ChunksPerFile chunks;  *)
(* every chunk is written and then the cancellation set is polled          *)
(* (direct.py:79-93).                                                      *)
(***************************************************************************)
ChunksPerFile == 2

\* check_for_cancel (base.py:170-174): does it raise for this request
check_for_cancel(r) == r \in cancellation_events

\* requests.get / curl_requests.get answered (direct.py:56-68, 114-118)
DirectConnect(r, sz) ==
    /\ req[r].pc = "start" /\ Strategy(req[r].url) = "direct"
    /\ req' = [req EXCEPT ![r].pc = "stream", ![r].size = sz,
                           ![r].transferred = TRUE]
    /\ UNCHANGED <<users, txn, cache, cancellation_events, resume_state_cache, callbacks, process>>

\* one iteration of the iter_content loop (direct.py:79-93, 129-142) and
\* DirectDownload._start's handling of what it raises (direct.py:297-310)
DirectChunk(r) ==
    /\ req[r].pc = "stream" /\ req[r].chunks < ChunksPerFile
    /\ IF check_for_cancel(r)
       THEN /\ cancellation_events' = cancellation_events \ {r}
            /\ req' = [req EXCEPT
                         ![r].chunks = @ + 1,
                         ![r].tempdir = {"raw"},
                         ![r].polled = TRUE,
                         ![r].cancel_observed = TRUE,
                         ![r].error = "cancelled",
                         \* "בוטלה" in str(e): the ValueError is swallowed
                         ![r].pc = "record"]
       ELSE /\ cancellation_events' = cancellation_events
            /\ req' = [req EXCEPT
                         ![r].chunks = @ + 1,
                         ![r].tempdir = {"raw"},
                         ![r].polled = TRUE,
                         \* download_hook (base.py:155-157)
                         ![r].aborted = IF req[r].size > MAX_DOWNLOAD_SIZE
                                        THEN "too_large" ELSE @,
                         ![r].error = IF req[r].size > MAX_DOWNLOAD_SIZE
                                      THEN "too_large" ELSE @,
                         ![r].pc = IF req[r].size > MAX_DOWNLOAD_SIZE
                                   THEN "failed" ELSE @]
    /\ UNCHANGED <<users, txn, cache, resume_state_cache, callbacks, process>>

\* the connection breaks: RequestException -> ValueError (direct.py:157-158),
\* re-raised by _start (direct.py:309-310)
DirectNetworkError(r) ==
    /\ req[r].pc = "stream" /\ req[r].chunks < ChunksPerFile
    /\ req' = [req EXCEPT ![r].pc = "failed", ![r].error = "network"]
    /\ UNCHANGED <<users, txn, cache, cancellation_events, resume_state_cache, callbacks, process>>

\* what filetype.guess_extension (direct.py:160-165) makes of the file: a
\* video or audio suffix, or any other suffix or none (an archive, a
\* document, an image, an unknown type)
FileKinds == {"media", "other"}

\* the loop ends, the file gets its extension (direct.py:160-167)
DirectFinish(r, kind) ==
    /\ req[r].pc = "stream" /\ req[r].chunks = ChunksPerFile
    /\ req' = [req EXCEPT ![r].pc = "upload",
                           ![r].tempdir = {kind}]
    /\ UNCHANGED <<users, txn, cache, cancellation_events, resume_state_cache, callbacks, process>>

(***************************************************************************)
(* TikTokDownload (tiktok.py:203-285, 322-326): the backends are tried in  *)
(* turn inside _download, which returns [] when all of them failed; _start *)
(* then returns normally.                                                  *)
(***************************************************************************)
TikTokDownload(r, ok, sz) ==
    /\ req[r].pc = "start" /\ Strategy(req[r].url) = "tiktok"
    /\ ~ok => sz = 2
    /\ req' = [req EXCEPT
                 ![r].transferred = TRUE,
                 ![r].size = IF ok THEN sz ELSE 0,
                 ![r].tempdir = IF ok THEN {"media"} ELSE {},
                 ![r].format = IF ok THEN <<"video">> ELSE @,
                 ![r].error = IF ok THEN @ ELSE "all_backends_failed",
                 ![r].pc = IF ok THEN "upload" ELSE "record"]
    /\ UNCHANGED <<users, txn, cache, cancellation_events, resume_state_cache, callbacks, process>>

(***************************************************************************)
(* YoutubeDownload (generic.py:220-446).                                   *)
(***************************************************************************)
\* the format specifiers, by the name of the list they come from
Defaults == <<"default1", "default2", "None">>
QualityMap(sel) ==
    IF sel = "audio"
    THEN <<"bestaudio_ext", "bestaudio_mp3", "bestaudio_opus",
           "bestaudio_webm", "bestaudio", "video_to_extract_audio">>
    ELSE <<sel>>

\* _setup_formats (generic.py:275-356) for a YouTube URL and the stored
\* quality "high": the candidate list
setup_formats(sel, fmt) ==
    IF sel # ""
    THEN QualityMap(sel) \o Defaults
    ELSE Defaults

\* _setup_formats' assignment to self._format (generic.py:311-319)
setup_format(sel, fmt) == IF sel # "" THEN <<"video">> ELSE fmt

\* _start up to the call of _download (generic.py:436-443)
YtSetup(r) ==
    /\ req[r].pc = "start" /\ Strategy(req[r].url) = "youtube"
    /\ req' = [req EXCEPT
                 ![r].formats = setup_formats(req[r].selected, req[r].format),
                 ![r].format = setup_format(req[r].selected, req[r].format),
                 ![r].idx = 1,
                 ![r].pc = "chain"]
    /\ UNCHANGED <<users, txn, cache, cancellation_events, resume_state_cache, callbacks, process>>

\* What yt-dlp does with one format specifier:
\*   "extract_fail"  raises an extraction error before any byte is fetched
\*   "net_fail"      raises after a partial file (.part) was written
\*   "empty"         returns without an error and without an output file
\*   "files"         downloads the media file
\*   "live"          match_filter (generic.py:214-217) raises
\*                   NotImplementedError for a live stream
Outcomes == {"extract_fail", "net_fail", "empty", "files", "live"}

\* one iteration of the loop over the candidates (generic.py:408-423) and,
\* after the last one, the return to _start (generic.py:425-445)
YtAttempt(r, o, sz) ==
    /\ req[r].pc = "chain"
    /\ o # "files" => sz = 2
    /\ LET q        == req[r]
           progress == o \in {"net_fail", "files"}  \* download_hook is called
           cancel   == progress /\ check_for_cancel(r)
           toolarge == ~cancel /\ o = "files" /\ sz > MAX_DOWNLOAD_SIZE
           raised   == cancel \/ toolarge
                          \/ o \in {"extract_fail", "net_fail", "live"}
           dir      == IF cancel \/ o \in {"extract_fail", "empty", "live"}
                       THEN q.tempdir
                       ELSE IF raised
                       THEN q.tempdir \cup {"part"}
                       ELSE q.tempdir \cup {"media"}
           files    == dir                           \* glob("*"), line 414
           break    == ~raised /\ files # {}
           last     == q.idx = Len(q.formats)
           extract  == q.extraction_error_encountered \/ o = "extract_fail"
       IN  /\ cancellation_events' =
                 IF cancel THEN cancellation_events \ {r}
                 ELSE cancellation_events
           /\ req' = [req EXCEPT ![r] =
                 [q EXCEPT
                    !.tempdir = dir,
                    !.polled = @ \/ progress,
                    !.transferred = @ \/ progress,
                    !.size = IF break THEN sz ELSE @,
                    !.cancel_observed = @ \/ cancel,
                    !.afterCancel = @ \/ q.cancel_observed,
                    !.aborted = IF @ # "" THEN @
                                ELSE IF toolarge THEN "too_large"
                                ELSE IF o = "live" THEN "live" ELSE @,
                    !.afterAbort = @ \/ q.aborted # "",
                    !.extraction_error_encountered = extract,
                    !.other_failure = @ \/ (~break /\ o # "extract_fail"),
                    !.stopped = IF break THEN q.idx ELSE @,
                    !.idx = IF break \/ last THEN @ ELSE @ + 1,
                    !.error = IF break THEN @
                              ELSE IF last /\ ~(extract /\ ~q.retry_after_update)
                              THEN "no_formats" ELSE @,
                    !.pc = IF break THEN "upload"
                           ELSE IF ~last THEN "chain"
                           ELSE IF extract /\ ~q.retry_after_update
                           THEN "update" ELSE "failed"]]
    /\ UNCHANGED <<users, txn, cache, resume_state_cache, callbacks, process>>

\* try_update_ytdlp and the single retry of the whole list
\* (generic.py:426-432)
YtUpdate(r, updated) ==
    /\ req[r].pc = "update"
    \* no second attempt in the session (generic.py:150-154)
    /\ updated => ~ytdlp_update_attempted
    /\ ytdlp_update_attempted' = TRUE
    /\ req' = [req EXCEPT
                 ![r].retry_after_update = updated,
                 ![r].extraction_error_encountered = IF updated THEN FALSE ELSE @,
                 ![r].other_failure = IF updated THEN FALSE ELSE @,
                 ![r].attempted = ~ytdlp_update_attempted,
                 ![r].idx = IF updated THEN 1 ELSE @,
                 ![r].error = IF updated THEN @ ELSE "no_formats",
                 ![r].pc = IF updated THEN "chain" ELSE "failed"]
    /\ UNCHANGED <<users, txn, cache, cancellation_events, resume_state_cache, callbacks,
                 youtube_url_cache, last_called, lock, clock>>

(***************************************************************************)
(* BaseDownloader._upload (base.py:494-704).                               *)
(***************************************************************************)
\* the video is over the single-file limit (base.py:518-522)
NeedsSplit(q) ==
    ~q.hit /\ MediaFiles(q.tempdir) # {} /\ q.size > TG_NORMAL_MAX_SIZE

\* the send of base.py:540-623 and the cache write of base.py:625-632;
\* sent is the transport's answer to the method that is finally tried
Upload(r, sent) ==
    /\ req[r].pc = "upload" /\ ~NeedsSplit(req[r])
    /\ LET q         == req[r]
           \* a cached file_id, or a file that is not a .part
           sendable  == q.hit \/ q.tempdir \cap FileKinds # {}
           cancel    == ~q.hit /\ sendable /\ check_for_cancel(r)
           \* the loop over attempt_methods catches the cancellation
           swallowed == cancel /\ q.format = <<"video">>
           ok        == sendable /\ sent /\ (~cancel \/ swallowed)
           key       == calc_video_key(q.url, q.quality, q.format)
       IN  /\ (~sendable \/ (cancel /\ ~swallowed)) => ~sent
           /\ cancellation_events' =
                 IF cancel THEN cancellation_events \ {r}
                 ELSE cancellation_events
           /\ cache' = IF ok
                       THEN add_cache(cache, key, [file_id |-> r, meta |-> q.url])
                       ELSE cache
           /\ req' = [req EXCEPT ![r] =
                 [q EXCEPT
                    !.delivered = ok,
                    !.wrote = IF ok THEN key ELSE @,
                    !.cancel_observed = @ \/ cancel,
                    !.afterCancel = @ \/ q.cancel_observed \/ swallowed,
                    !.error = IF ok THEN @
                              ELSE IF cancel THEN "cancelled" ELSE "upload",
                    !.pc = IF ok THEN "edit"
                           ELSE IF cancel /\ ~swallowed
                                   /\ Strategy(q.url) = "direct"
                           THEN "record"          \* direct.py:301-308
                           ELSE "failed"]]
    /\ UNCHANGED <<users, txn, resume_state_cache, callbacks, process>>

\* self._record_usage(original_size) before the split (base.py:522-527)
SplitRecord(r) ==
    /\ req[r].pc = "upload" /\ NeedsSplit(req[r])
    /\ Charge(r, req[r].size, "split")
    /\ UNCHANGED <<txn, cache, cancellation_events, resume_state_cache, callbacks, process>>

\* _split_video_if_needed and _upload_split_video (base.py:529-538,
\* 361-492); _upload returns without reaching the cache write
SplitUpload(r, sent) ==
    /\ req[r].pc = "split"
    /\ LET q      == req[r]
           cancel == check_for_cancel(r)
           ok     == sent /\ ~cancel
       IN  /\ cancellation_events' =
                 IF cancel THEN cancellation_events \ {r}
                 ELSE cancellation_events
           /\ req' = [req EXCEPT ![r] =
                 [q EXCEPT
                    !.delivered = ok,
                    \* the original and the parts are unlinked
                    !.tempdir = @ \ MediaFiles(@),
                    !.cancel_observed = @ \/ cancel,
                    !.afterCancel = @ \/ q.cancel_observed,
                    !.error = IF ok THEN @
                              ELSE IF cancel THEN "cancelled" ELSE "upload",
                    !.pc = IF ok THEN "edit"
                           ELSE IF cancel /\ Strategy(q.url) = "direct"
                           THEN "record"
                           ELSE "failed"]]
    /\ UNCHANGED <<users, txn, cache, resume_state_cache, callbacks, process>>

\* the last statement of a delivery, self._bot_msg.edit_text("done ...")
\* (base.py:537, 703), a call of the transport outside any try; raised is
\* whether the transport refuses the edit.  _upload then returns to start()
\* (base.py:725, 727-733)
FinalEdit(r, raised) ==
    /\ req[r].pc = "edit"
    /\ req' = [req EXCEPT
                 ![r].error = IF raised THEN "edit" ELSE @,
                 ![r].pc = IF raised THEN "failed"
                           ELSE IF req[r].hit THEN "done" ELSE "record"]
    /\ UNCHANGED <<users, txn, cache, cancellation_events, resume_state_cache, callbacks, process>>

\* cancel_callback (main.py:759-773) for the status message of request r
Cancel(r) ==
    /\ req[r].pc \in {"start", "stream", "chain", "update", "upload", "split"}
    /\ ~req[r].cancel_pressed
    /\ cancellation_events' = cancellation_events \cup {r}
    /\ req' = [req EXCEPT
                 ![r].cancel_pressed = TRUE,
                 ![r].cancelled_early =
                     ~req[r].polled
                     /\ req[r].pc \in {"start", "stream", "chain"}]
    /\ UNCHANGED <<users, txn, cache, resume_state_cache, callbacks, process>>

(***************************************************************************)
(* The request specification: one request, handled from the message to its *)
(* end, in any state of the ledger and of the persistent cache (cache.py   *)
(* keeps it in SQLite) that earlier requests can have left behind.         *)
(***************************************************************************)
NoCallback ==
    [pc |-> "idle", state_hash |-> 0, resume_state |-> <<>>, entrance |-> ""]
Callbacks == {1, 2}

\* self._format at the cache write of a request that was delivered
\* (tiktok.py:239, generic.py:311-319)
WriteFormat(url, fmt, sel) ==
    IF Strategy(url) = "tiktok" THEN <<"video">>
    ELSE IF Strategy(url) = "youtube" THEN setup_format(sel, fmt)
    ELSE fmt

\* the keys some request can have written
WritableKeys ==
    {calc_video_key(url, InitQuality(url, sel), WriteFormat(url, fmt, sel)) :
        url \in Urls, fmt \in Formats, sel \in Selections}

InitTables ==
    /\ \E f \in 0..MaxFree, p \in 0..MaxPaid :
          users = [u \in Users |-> IF u = Contended THEN User(f, p)
                                   ELSE User(FREE_DOWNLOAD, 0)]
    /\ txn = [t \in Txns |-> NoSession]
    /\ req = [r \in Reqs |-> NewRequest]
    /\ cancellation_events = {}
    /\ resume_state_cache = <<>>
    /\ callbacks = [c \in Callbacks |-> NoCallback]
    /\ InitProcess

Init ==
    /\ InitTables
    /\ \/ cache = <<>>
       \/ \E k \in WritableKeys :
             cache = add_cache(<<>>, k, [file_id |-> 0, meta |-> <<>>])

\* the steps of request r
Step(r) ==
    \/ \E u \in Users, url \in Urls, fmt \in Formats, sel \in Selections :
          Start(r, u, url, fmt, sel)
    \/ Lookup(r)
    \/ HitRecord(r)
    \/ \E sz \in Sizes : DirectConnect(r, sz)
    \/ DirectChunk(r)
    \/ DirectNetworkError(r)
    \/ \E kind \in FileKinds : DirectFinish(r, kind)
    \/ \E ok \in BOOLEAN, sz \in Sizes : TikTokDownload(r, ok, sz)
    \/ YtSetup(r)
    \/ \E o \in Outcomes, sz \in Sizes : YtAttempt(r, o, sz)
    \/ \E updated \in BOOLEAN : YtUpdate(r, updated)
    \/ \E sent \in BOOLEAN : Upload(r, sent)
    \/ SplitRecord(r)
    \/ \E sent \in BOOLEAN : SplitUpload(r, sent)
    \/ \E raised \in BOOLEAN : FinalEdit(r, raised)
    \/ Record(r)
    \/ Cancel(r)

Next == Step(1)

Spec == Init /\ [][Next]_vars

(***************************************************************************)
(* Two requests on two worker threads (main.py:57-63), for the sources     *)
(* that are fetched in one piece: the direct and the TikTok downloader.    *)
(***************************************************************************)
InitConcurrent == InitTables /\ cache = <<>>

NextConcurrent ==
    \E r \in Reqs :
        \/ \E u \in Users, url \in {DD, TT}, fmt \in Formats :
              Start(r, u, url, fmt, "")
        \/ Lookup(r)
        \/ HitRecord(r)
        \/ \E sz \in Sizes : DirectConnect(r, sz)
        \/ DirectChunk(r)
        \/ DirectNetworkError(r)
        \/ \E kind \in FileKinds : DirectFinish(r, kind)
        \/ \E ok \in BOOLEAN, sz \in Sizes : TikTokDownload(r, ok, sz)
        \/ \E sent \in BOOLEAN : Upload(r, sent)
        \/ SplitRecord(r)
        \/ \E sent \in BOOLEAN : SplitUpload(r, sent)
        \/ \E raised \in BOOLEAN : FinalEdit(r, raised)
        \/ Record(r)
        \/ Cancel(r)

SpecConcurrent == InitConcurrent /\ [][NextConcurrent]_vars

(***************************************************************************)
(* The resume table.  edit_text_with_resume_button (base.py:192-234) is    *)
(* the only writer of _resume_state_cache; no caller of it exists in the   *)
(* repository, so the specification below exercises it as an operation of  *)
(* a live downloader, next to the resume_callback handlers                 *)
(* (main.py:776-827) that pyrogram runs on its worker threads.             *)
(***************************************************************************)
MaxSnapshots == 2
DownloadTypes == {"direct", "youtube", "generic"}

\* state_hash (base.py:207): a digest of url, chat id and message id, one
\* per status message, hence one per request
state_hash(r) == r

\* dict.pop(key, None) (main.py:790): the value, None as <<>>, and the
\* dict afterwards
pop_keeps(d, k) ==
    [value |-> IF k \in DOMAIN d THEN d[k] ELSE <<>>, dict |-> d]

pop(d, k) ==
    [value |-> IF k \in DOMAIN d THEN d[k] ELSE <<>>,
     dict  |-> [j \in DOMAIN d \ {k} |-> d[j]]]

\* the values of the quality argument (base.py:193, "for YouTube"): none,
\* or a quality a request can be started with
QualityArgs == {<<>>} \cup {<<sel>> : sel \in Selections \ {""}}

\* edit_text_with_resume_button (base.py:204-221)
EditTextWithResumeButton(r, download_type, quality) ==
    /\ req[r].pc = "stream"
    /\ req[r].snapshots < MaxSnapshots
    \* a caller passes no quality or the one of its own request
    /\ quality # <<>> => quality = <<req[r].selected>>
    /\ resume_state_cache' =
          store(resume_state_cache, state_hash(r),
                    [url |-> req[r].url, from_user |-> req[r].user,
                     message_id |-> r, downloaded_bytes |-> req[r].chunks,
                     \* quality or self._quality (base.py:215)
                     quality |-> IF quality # <<>> THEN quality
                                 ELSE req[r].quality,
                     format |-> req[r].format,
                     download_type |-> download_type])
    /\ req' = [req EXCEPT ![r].snapshots = @ + 1]
    /\ UNCHANGED <<users, txn, cache, cancellation_events, callbacks, process>>

\* resume_callback up to the early return (main.py:779-793)
ResumePop(c, token) ==
    /\ callbacks[c].pc = "idle"
    /\ LET taken == pop(resume_state_cache, token) IN
         /\ resume_state_cache' = taken.dict
         /\ callbacks' = [callbacks EXCEPT ![c] =
               [pc |-> IF taken.value = <<>> THEN "expired" ELSE "popped",
                state_hash |-> token, resume_state |-> taken.value,
                entrance |-> ""]]
    /\ UNCHANGED <<users, txn, req, cache, cancellation_events, process>>

\* resume_callback's dispatch (main.py:795-824)
ResumeStart(c) ==
    /\ callbacks[c].pc = "popped"
    /\ LET st == callbacks[c].resume_state IN
         callbacks' = [callbacks EXCEPT
            ![c].pc = "started",
            ![c].entrance =
                IF st.download_type = "direct" THEN "direct_entrance"
                ELSE IF st.download_type = "youtube"
                THEN (IF st.quality # StoredQuality
                      THEN "youtube_entrance_with_quality"
                      ELSE "youtube_entrance")
                ELSE "special_download_entrance"]
    /\ UNCHANGED <<users, txn, req, cache, cancellation_events, resume_state_cache, process>>

\* the selected_quality of the YoutubeDownload that the entrance builds
\* (main.py:811-816, engine/__init__.py:18-30); <<>> is None
ResumedSelection(c) ==
    IF callbacks[c].entrance = "youtube_entrance_with_quality"
    THEN callbacks[c].resume_state.quality ELSE <<>>

\* _setup_formats of that downloader (generic.py:280-319):
\* quality_map.get(selected_quality, defaults) gives the defaults for a
\* value that is not a key of the map
ResumedFormats(c) ==
    LET sel == ResumedSelection(c)
        fmt == callbacks[c].resume_state.format
    IN  IF sel = <<>> THEN setup_formats("", fmt)
        ELSE IF Len(sel) = 1 /\ sel[1] \in Selections \ {""}
        THEN setup_formats(sel[1], fmt)
        ELSE Defaults \o Defaults

\* two transfers are streaming: a direct one and a YouTube one with an
\* explicit quality
InitResume ==
    /\ users = [u \in Users |-> User(FREE_DOWNLOAD, 0)]
    /\ txn = [t \in Txns |-> NoSession]
    /\ \E n \in 0..ChunksPerFile :
          req = [r \in Reqs |->
                   [NewRequest EXCEPT
                      !.pc = "stream", !.user = r, !.chunks = n,
                      !.url = IF r = 1 THEN DD ELSE YT,
                      !.selected = IF r = 1 THEN "" ELSE "720",
                      !.quality = InitQuality(IF r = 1 THEN DD ELSE YT,
                                              IF r = 1 THEN "" ELSE "720"),
                      !.format = <<"video">>, !.fmt0 = <<"video">>]]
    /\ cache = <<>>
    /\ cancellation_events = {}
    /\ resume_state_cache = <<>>
    /\ callbacks = [c \in Callbacks |-> NoCallback]
    /\ InitProcess

NextResume ==
    \/ \E r \in Reqs, d \in DownloadTypes, quality \in QualityArgs :
          EditTextWithResumeButton(r, d, quality)
    \/ \E c \in Callbacks, token \in Reqs : ResumePop(c, token)
    \/ \E c \in Callbacks : ResumeStart(c)

SpecResume == InitResume /\ [][NextResume]_vars

InitLedger ==
    /\ users \in [Users -> {User(f, p) : f \in 0..MaxFree, p \in 0..MaxPaid}]
    /\ txn = [t \in Txns |-> NoSession]
    /\ req = [r \in Reqs |-> NewRequest]
    /\ cache = <<>>
    /\ cancellation_events = {}
    /\ resume_state_cache = <<>>
    /\ callbacks = [c \in Callbacks |-> NoCallback]
    /\ InitProcess

\* The sessions of one user contend for that user's row; reset_free also
\* rewrites the rows of the others.
NextLedger ==
    \/ \E t \in Txns : BeginUseQuota(t, Contended)
    \/ \E t \in Txns, a \in 1..MaxCredit : BeginAddPaidQuota(t, Contended, a)
    \/ \E t \in Txns, s \in 1..MaxBandwidth : BeginAddBandwidthUsed(t, Contended, s)
    \/ \E t \in Txns : BeginResetFree(t)
    \/ \E t \in Txns : CheckQuota(t, Contended)
    \/ \E t \in Txns : Commit(t)

SpecLedger == InitLedger /\ [][NextLedger]_vars

(***************************************************************************)
(* The cache key over the strings the code can feed it: any URL, the       *)
(* stored quality with or without ":<selection>" appended                  *)
(* (generic.py:232-234) and the stored format.  Strings are sequences over *)
(* an alphabet of pieces none of which is a prefix of another, so two      *)
(* sequences differ exactly when the strings they spell differ.            *)
(***************************************************************************)
MaxUrlLen == 3
UrlAlphabet == {"y", "high", ":"}
KeyUrls ==
    {YT \o tail : tail \in UNION {[1..n -> UrlAlphabet] : n \in 0..(MaxUrlLen - 1)}}

\* Setting.quality and Setting.format (model.py:56-57) of the model's users
KeyQualities == {<<"high">>, <<"audio">>}
KeyFormats == {<<"video">>, <<"audio">>}

\* <<self._quality, self._format>> after YoutubeDownload.__init__
\* (generic.py:227-234) for a stored quality and format and a selection
KeyAttrs ==
    {<<IF sel # "" THEN quality \o <<":", sel>> ELSE quality,
       IF sel = "audio" THEN <<"audio">> ELSE format>> :
        quality \in KeyQualities, format \in KeyFormats, sel \in {"", "audio"}}

\* BaseDownloader.__init__ (base.py:62-79) and YoutubeDownload.__init__
\* (generic.py:221-234): the three attributes the key is computed from
Construct(r, url, quality, format) ==
    /\ req[r].pc = "new"
    /\ \A q \in Reqs : q < r => req[q].pc # "new"
    /\ req' = [req EXCEPT ![r].pc = "lookup", ![r].user = Contended,
                           ![r].url = url, ![r].quality = quality,
                           ![r].format = format, ![r].fmt0 = format]
    /\ UNCHANGED <<users, txn, cache, cancellation_events, resume_state_cache, callbacks, process>>

InitKey ==
    /\ users = [u \in Users |-> User(FREE_DOWNLOAD, 0)]
    /\ txn = [t \in Txns |-> NoSession]
    /\ req = [r \in Reqs |-> NewRequest]
    /\ cache = <<>>
    /\ cancellation_events = {}
    /\ resume_state_cache = <<>>
    /\ callbacks = [c \in Callbacks |-> NoCallback]
    /\ InitProcess

NextKey ==
    \E r \in Reqs :
        \/ \E url \in KeyUrls, a \in KeyAttrs : Construct(r, url, a[1], a[2])
        \/ Lookup(r)

SpecKey == InitKey /\ [][NextKey]_vars

(***************************************************************************)
(* The result cache (cache.py) called from the worker threads.  add_cache  *)
(* is a session that first queries the row of the key and then, at its     *)
(* commit, flushes an INSERT or an UPDATE; get_cache and delete_cache are  *)
(* one statement each.                                                     *)
(***************************************************************************)
MaxFileId == 2
CacheKeys == {calc_video_key(DD, StoredQuality, f) : f \in Formats}
\* the mapping _upload builds (base.py:627-630)
Mappings == {[file_id |-> i, meta |-> DD] : i \in 1..MaxFileId}

\* add_cache up to "if existing:" (cache.py:53-56)
AddCacheQuery(t, key, mapping) ==
    /\ txn[t].status # "open"
    /\ txn' = [txn EXCEPT ![t] =
                 [op |-> IF key \in DOMAIN cache THEN "add_cache_update"
                         ELSE "add_cache_insert",
                  uid |-> 0, size |-> 0, writes |-> {<<key, mapping>>},
                  status |-> "open"]]
    /\ UNCHANGED <<users, req, cache, cancellation_events, resume_state_cache, callbacks, process>>

\* the <<key, mapping>> of an add_cache session
Call(t) == CHOOSE w \in txn[t].writes : TRUE

\* the flush fails: an INSERT of a cache_key that has a row by now breaks
\* the unique constraint (cache.py:18), an UPDATE of a row that is gone
\* matches nothing
FlushFails(t) ==
    \/ txn[t].op = "add_cache_insert" /\ Call(t)[1] \in DOMAIN cache
    \/ txn[t].op = "add_cache_update" /\ Call(t)[1] \notin DOMAIN cache

\* session.commit() and the except branch that rolls back, logs and
\* returns (cache.py:66-73)
AddCacheCommit(t) ==
    /\ txn[t].status = "open"
    /\ txn[t].op \in {"add_cache_insert", "add_cache_update"}
    /\ cache' = IF FlushFails(t) THEN cache
                ELSE add_cache(cache, Call(t)[1], Call(t)[2])
    /\ txn' = [txn EXCEPT ![t].status = IF FlushFails(t) THEN "rolled_back"
                                        ELSE "committed"]
    /\ UNCHANGED <<users, req, cancellation_events, resume_state_cache, callbacks, process>>

\* get_cache (cache.py:75-91); the session keeps what was returned
GetCache(t, key) ==
    /\ txn[t].status # "open"
    /\ txn' = [txn EXCEPT ![t] =
                 [op |-> "get_cache", uid |-> 0, size |-> 0,
                  writes |-> {<<key, get_cache(cache, key)>>},
                  status |-> "returned"]]
    /\ UNCHANGED <<users, req, cache, cancellation_events, resume_state_cache, callbacks, process>>

\* delete_cache (cache.py:93-107)
DeleteCache(t, key) ==
    /\ txn[t].status # "open"
    /\ cache' = delete_cache(cache, key)
    /\ txn' = [txn EXCEPT ![t] =
                 [op |-> "delete_cache", uid |-> 0, size |-> 0,
                  writes |-> {<<key, Miss>>},
                  status |-> IF key \in DOMAIN cache THEN "deleted"
                             ELSE "not_found"]]
    /\ UNCHANGED <<users, req, cancellation_events, resume_state_cache, callbacks, process>>

InitCache == InitKey

NextCache ==
    \E t \in Txns :
        \/ \E key \in CacheKeys, mapping \in Mappings : AddCacheQuery(t, key, mapping)
        \/ AddCacheCommit(t)
        \/ \E key \in CacheKeys : GetCache(t, key)
        \/ \E key \in CacheKeys : DeleteCache(t, key)

SpecCache == InitCache /\ [][NextCache]_vars

(***************************************************************************)
(* The entry points of main.py: the handler a request comes through, the   *)
(* entrance it calls (engine/__init__.py), BaseDownloader.start up to      *)
(* check_quota, what _start ends with, and the except clauses the raised   *)
(* exception meets on its way out.                                         *)
(***************************************************************************)
Entries == {"message", "direct", "spdl", "ytdl", "quality", "resume"}

\* A URL is the sequence of the pieces of its text after the scheme: the
\* pieces of the hostname, then "/" and the pieces of the path, then "?"
\* and the pieces of the query.  The pieces are chosen so that one string
\* ends with (contains) another exactly when its pieces do.
\* urllib.parse.urlparse (engine/__init__.py:93, utils/__init__.py:28):
\* the authority up to the first "/" or "?", the path up to the "?"
urlparse(url) ==
    LET \* the index of the first piece that is in T, Len(url) + 1 if none
        Find(T) ==
            IF \E i \in 1..Len(url) : url[i] \in T
            THEN CHOOSE i \in 1..Len(url) :
                    url[i] \in T /\ \A j \in 1..(i - 1) : url[j] \notin T
            ELSE Len(url) + 1
    IN  [hostname |-> SubSeq(url, 1, Find({"/", "?"}) - 1),
         path     |-> SubSeq(url, Find({"/", "?"}), Find({"?"}) - 1)]

\* str.endswith
endswith(s, suffix) ==
    /\ Len(suffix) <= Len(s)
    /\ SubSeq(s, Len(s) - Len(suffix) + 1, Len(s)) = suffix

\* str.lower on the pieces that have an upper-case letter
lower(url) ==
    [i \in 1..Len(url) |-> IF url[i] = ".MP4" THEN ".mp4" ELSE url[i]]

\* DOWNLOADER_MAP (engine/__init__.py:67-75), in the order of the dict
DOWNLOADER_MAP ==
    << [suffix |-> <<"pixeldrain.com">>,    handler |-> "pixeldrain_download"],
       [suffix |-> <<"krakenfiles.com">>,   handler |-> "krakenfiles_download"],
       [suffix |-> <<"instagram.com">>,     handler |-> "instagram_handler"],
       [suffix |-> <<"reddit.com">>,        handler |-> "reddit_handler"],
       [suffix |-> <<"redd.it">>,           handler |-> "reddit_handler"],
       [suffix |-> <<"tiktok.com">>,        handler |-> "tiktok_handler"],
       [suffix |-> <<"vt.", "tiktok.com">>, handler |-> "tiktok_handler"] >>

\* MEDIA_EXTENSIONS (engine/__init__.py:78-82): a video and an archive
\* extension of the tuple
MEDIA_EXTENSIONS == {".mp4", ".zip"}

\* the path of the URL ends with one of the extensions
has_media_extension(url) ==
    LET path == urlparse(lower(url)).path IN
    path # <<>> /\ path[Len(path)] \in MEDIA_EXTENSIONS

\* is_direct_download_url (engine/__init__.py:85-88): "ext in url_lower"
is_direct_download_url(url) ==
    \E i \in 1..Len(url) : lower(url)[i] \in MEDIA_EXTENSIONS

\* the entries of the table whose suffix the hostname ends with
Matches(hostname) ==
    {i \in 1..Len(DOWNLOADER_MAP) : endswith(hostname, DOWNLOADER_MAP[i].suffix)}

\* the results of special_download_entrance that are a raised ValueError
EntranceErrors == {"invalid_link", "youtube_hint", "no_downloader"}

\* special_download_entrance (engine/__init__.py:91-113): the handler it
\* calls, or the ValueError it raises
special_download_entrance(url) ==
    LET hostname == urlparse(url).hostname
        hits     == Matches(hostname)
    IN  IF hostname = <<>> THEN "invalid_link"
        ELSE IF endswith(hostname, <<"youtube.com">>) \/ hostname = <<"youtu.be">>
        THEN "youtube_hint"                   \* "for YouTube links ..."
        ELSE IF hits # {}
        THEN DOWNLOADER_MAP[CHOOSE i \in hits : \A j \in hits : i <= j].handler
        ELSE IF is_direct_download_url(url) THEN "direct_entrance"
        ELSE "no_downloader"                  \* "לא נמצא מוריד ..."

\* is_youtube (utils/__init__.py:23-32): the netloc is one of four names
is_youtube(url) ==
    urlparse(url).hostname \in {<<"youtube.com">>, <<"www.", "youtube.com">>,
                                <<"youtu.be">>, <<"music.", "youtube.com">>}

\* The URLs of the entry points: a YouTube watch page, the same page on the
\* mobile site, a media file on some host, a krakenfiles.com page and a
\* page of a host without a special downloader.
WatchUrl == <<"www.", "youtube.com", "/", "watch">>
MobileUrl == <<"m.", "youtube.com", "/", "watch">>
FileUrl == <<"example.com", "/", "v", ".mp4">>
KF == <<"krakenfiles.com", "/", "view">>
UN == <<"example.com", "/", "v">>
EntryUrls == {WatchUrl, MobileUrl, FileUrl, KF, UN}

\* every ValueError of the entrance leaves the handler
EntranceRaises_no_fallback(entry, special) == special \in EntranceErrors

\* does a ValueError of special_download_entrance leave the handler's call:
\* spdl_handler lets each through (main.py:397-403); download_handler and
\* resume_callback catch the "no downloader" one and fall back to
\* youtube_entrance (main.py:541-546, 819-824)
EntranceRaises(entry, special) ==
    \/ special \in {"invalid_link", "youtube_hint"}
    \/ special = "no_downloader" /\ entry = "spdl"

\* the handler up to the call of start(), of the page scrape, or up to its
\* own return: download_handler (main.py:445-546), direct_download
\* (main.py:365-382), spdl_handler (main.py:386-403), ytdl_handler
\* (main.py:407-425), youtube_quality_callback (main.py:706-756) and
\* resume_callback (main.py:777-824)
Dispatch(r, entry, u, url, download_type) ==
    /\ req[r].pc = "new"
    /\ entry = "quality" => is_youtube(url)
    /\ entry # "resume" => download_type = "generic"
    /\ LET special == special_download_entrance(url)
           \* the handlers that call special_download_entrance
           viaSpecial == \/ entry = "spdl"
                         \/ entry = "message" /\ ~is_youtube(url)
                         \/ entry = "resume" /\ download_type = "generic"
           \* ... inside a try of their own (main.py:541-546, 820-824)
           inner == viaSpecial /\ entry # "spdl"
           menu == entry = "message" /\ is_youtube(url)
           raises == viaSpecial /\ EntranceRaises(entry, special)
       IN  req' = [req EXCEPT ![r] =
             [@ EXCEPT
                !.entry = entry, !.user = u, !.url = url,
                !.route = IF menu \/ raises THEN ""
                          ELSE IF entry = "direct" THEN "direct"
                          ELSE IF entry \in {"ytdl", "quality"} THEN "youtube"
                          ELSE IF entry = "resume" /\ download_type # "generic"
                          THEN download_type
                          ELSE IF special = "no_downloader" THEN "youtube"
                          ELSE "direct",
                !.via = IF viaSpecial /\ special = "krakenfiles_download"
                        THEN "krakenfiles"
                        \* youtube_entrance is called from the except clause,
                        \* outside the inner try
                        ELSE IF inner /\ special # "no_downloader"
                        THEN "special" ELSE "",
                \* get_youtube_video_info (main.py:503) and the menu
                !.network = menu,
                !.replied = menu,
                !.exc = IF raises THEN "ValueError" ELSE "",
                !.error = IF raises THEN "unsupported" ELSE "",
                !.pc = IF menu THEN "menu"
                       ELSE IF raises THEN "raised"
                       ELSE IF viaSpecial /\ special = "krakenfiles_download"
                       THEN "scrape" ELSE "start"]]
    /\ UNCHANGED <<users, txn, cache, cancellation_events, resume_state_cache, callbacks, process>>

\* krakenfiles_download up to DirectDownload(...).start()
\* (krakenfiles.py:12-63): the page is fetched and the form posted
Scrape(r, ok) ==
    /\ req[r].pc = "scrape"
    /\ req' = [req EXCEPT ![r].network = TRUE,
                           ![r].exc = IF ok THEN "" ELSE "ValueError",
                           ![r].error = IF ok THEN "" ELSE "unavailable",
                           ![r].pc = IF ok THEN "start" ELSE "raised"]
    /\ UNCHANGED <<users, txn, cache, cancellation_events, resume_state_cache, callbacks, process>>

\* BaseDownloader.start, its first statement (base.py:715-717); check_quota
\* raises a plain Exception (model.py:205-211)
EntryStart(r) ==
    /\ req[r].pc = "start"
    /\ LET answer == check_quota(users, req[r].user) IN
         req' = [req EXCEPT
                   ![r].exc = IF answer = "ok" THEN "" ELSE "Exception",
                   ![r].error = IF answer = "ok" THEN "" ELSE answer,
                   ![r].pc = IF answer = "ok" THEN "run" ELSE "raised"]
    /\ UNCHANGED <<users, txn, cache, cancellation_events, resume_state_cache, callbacks, process>>

\* how the rest of start() ends for the downloader of the route:
\*   "ok"          the result is delivered
\*   "no_formats"  YoutubeDownload._start raises ValueError
\*                 (generic.py:444-445)
\*   "http_error"  DirectDownload raises ValueError (direct.py:64-65,
\*                 155-158)
\*   "too_large"   download_hook raises Exception (base.py:155-157), which
\*                 DirectDownload._start lets through (direct.py:297-310)
Ends(route) ==
    IF route = "youtube" THEN {"ok", "no_formats"}
    ELSE {"ok", "http_error", "too_large"}

EntryRun(r, o) ==
    /\ req[r].pc = "run"
    /\ o \in Ends(req[r].route)
    /\ req' = [req EXCEPT
                 ![r].network = TRUE,
                 ![r].replied = (o = "ok"),
                 ![r].delivered = (o = "ok"),
                 ![r].exc = IF o = "ok" THEN ""
                            ELSE IF o = "too_large" THEN "Exception"
                            ELSE "ValueError",
                 ![r].error = IF o = "ok" THEN "" ELSE o,
                 ![r].pc = IF o = "ok" THEN "archive" ELSE "raised"]
    /\ UNCHANGED <<users, txn, cache, cancellation_events, resume_state_cache, callbacks, process>>

\* a copy to the archive whose exception leaves the try block comes first
forward_to_archive_unguarded(q, raised) ==
    IF raised
    THEN [q EXCEPT !.archived = "failed", !.exc = "Exception",
                   !.error = "archive", !.pc = "raised"]
    ELSE [q EXCEPT !.archived = "copied", !.pc = "ended"]

\* the copy of a delivered result to ARCHIVE_CHANNEL, inside
\* "try: ... except Exception as e: logging.error(...)" (base.py:636-683,
\* tiktok.py:393-407, instagram.py:283-297); raised is whether a statement
\* of the try block raises
forward_to_archive(q, raised) ==
    [q EXCEPT !.archived = IF raised THEN "failed" ELSE "copied",
              !.pc = "ended"]

Archive(r, raised) ==
    /\ req[r].pc = "archive"
    /\ req' = [req EXCEPT ![r] = forward_to_archive(req[r], raised)]
    /\ UNCHANGED <<users, txn, cache, cancellation_events, resume_state_cache, callbacks, process>>

\* does an except clause on the way out of the handler send the user a
\* message: krakenfiles_download's own (krakenfiles.py:65-70), the inner
\* try of download_handler and resume_callback (main.py:543-546, 822-824),
\* then the handler's clauses
Answers(entry, via, exc) ==
    IF exc = "ValueError" /\ via = "krakenfiles" THEN TRUE
    ELSE IF exc = "ValueError" /\ via = "special" THEN FALSE
    ELSE IF entry \in {"direct", "spdl", "ytdl"} THEN exc = "ValueError"
    ELSE TRUE

\* does the except clause that catches the exception call
\* report_error_to_archive before it replies (main.py:379, 400, 422, 559,
\* 562); the callbacks and the downloaders' own clauses do not
Reports(entry, via, exc) ==
    /\ entry \in {"message", "direct", "spdl", "ytdl"}
    /\ Answers(entry, via, exc)
    /\ ~(exc = "ValueError" /\ via = "krakenfiles")

\* report_error_to_archive (main.py:72-99): the whole body is inside
\* "try: ... except Exception as e: logging.error(...)"
report_error_to_archive(q, raised) ==
    [q EXCEPT !.reported = IF raised THEN "failed" ELSE "sent"]

\* the except clause the exception ends in: the report, then the reply
Except(r, raised) ==
    /\ req[r].pc = "raised"
    /\ raised => Reports(req[r].entry, req[r].via, req[r].exc)
    /\ LET q == req[r]
           after == IF Reports(q.entry, q.via, q.exc)
                    THEN report_error_to_archive(q, raised) ELSE q
       IN  req' = [req EXCEPT ![r] =
                     [after EXCEPT
                        !.replied = Answers(q.entry, q.via, q.exc),
                        !.pc = "ended"]]
    /\ UNCHANGED <<users, txn, cache, cancellation_events, resume_state_cache, callbacks, process>>

\* the requesting user's row: any balance, blocked, or over the daily
\* bandwidth
InitEntry ==
    /\ \E row \in {User(f, p) : f \in 0..MaxFree, p \in 0..MaxPaid}
                  \cup {[User(FREE_DOWNLOAD, 0) EXCEPT !.is_blocked = 1],
                        [User(FREE_DOWNLOAD, 0) EXCEPT
                            !.bandwidth_used = FREE_BANDWIDTH]} :
          users = [u \in Users |-> IF u = Contended THEN row
                                   ELSE User(FREE_DOWNLOAD, 0)]
    /\ txn = [t \in Txns |-> NoSession]
    /\ req = [r \in Reqs |-> NewRequest]
    /\ cache = <<>>
    /\ cancellation_events = {}
    /\ resume_state_cache = <<>>
    /\ callbacks = [c \in Callbacks |-> NoCallback]
    /\ InitProcess

NextEntry ==
    \E r \in {1} :
        \/ \E entry \in Entries, url \in EntryUrls, d \in DownloadTypes :
              Dispatch(r, entry, Contended, url, d)
        \/ \E ok \in BOOLEAN : Scrape(r, ok)
        \/ EntryStart(r)
        \/ \E o \in {"ok", "no_formats", "http_error", "too_large"} : EntryRun(r, o)
        \/ \E raised \in BOOLEAN : Archive(r, raised)
        \/ \E raised \in BOOLEAN : Except(r, raised)

SpecEntry == InitEntry /\ [][NextEntry]_vars

(***************************************************************************)
(* The ledger used by one caller at a time: check_quota and use_quota      *)
(* called one after the other on one session thread, for an ordinary user, *)
(* for a user who has no row in the users table and for an owner           *)
(* (init_user, model.py:230-234, gives owners a row like anyone else).     *)
(***************************************************************************)
Accounts == Users \cup OWNER
Caller == CHOOSE t \in Txns : TRUE

\* use_quota (model.py:214-227) from the query to the commit of its
\* with-block, no other session in between
UseQuota(t, uid) ==
    /\ txn[t].status # "open"
    /\ LET found == uid \in DOMAIN users          \* "if user:"
           new   == IF found THEN use_quota(users[uid])
                    ELSE [raised |-> FALSE, row |-> User(0, 0)]
       IN  /\ users' = IF found /\ ~new.raised
                       THEN [users EXCEPT ![uid] = new.row] ELSE users
           /\ txn' = [txn EXCEPT ![t] =
                       [op |-> "use_quota", uid |-> uid, size |-> 0,
                        \* the UPDATE the commit flushed
                        writes |-> IF found /\ ~new.raised
                                   THEN Dirty(uid, users[uid], new.row)
                                   ELSE {},
                        status |-> IF new.raised THEN "raised"
                                   ELSE "committed"]]
    /\ UNCHANGED <<req, cache, cancellation_events, resume_state_cache, callbacks, process>>

\* the users table holds a row for some of the accounts
InitQuota ==
    /\ \E D \in SUBSET Accounts :
          users \in [D -> {User(f, p) : f \in 0..MaxFree, p \in 0..MaxPaid}]
    /\ txn = [t \in Txns |-> NoSession]
    /\ req = [r \in Reqs |-> NewRequest]
    /\ cache = <<>>
    /\ cancellation_events = {}
    /\ resume_state_cache = <<>>
    /\ callbacks = [c \in Callbacks |-> NoCallback]
    /\ InitProcess

NextQuota ==
    \/ \E uid \in Accounts : CheckQuota(Caller, uid)
    \/ \E uid \in Accounts : UseQuota(Caller, uid)

SpecQuota == InitQuota /\ [][NextQuota]_vars

(***************************************************************************)
(* Deductions of one user on concurrent sessions: what _record_usage       *)
(* (base.py:84-108) makes of the ledger, use_quota and add_bandwidth_used, *)
(* each in a session of its own, on the worker threads of main.py:57-63.   *)
(***************************************************************************)
NextDeduct ==
    \/ \E t \in Txns : BeginUseQuota(t, Contended)
    \/ \E t \in Txns, s \in 1..MaxBandwidth : BeginAddBandwidthUsed(t, Contended, s)
    \/ \E t \in Txns : Commit(t)

SpecDeduct == InitLedger /\ [][NextDeduct]_vars

(***************************************************************************)
(* check_quota on every row the table can hold: a blocked user, a balance  *)
(* at zero, a daily bandwidth below, at and above the cap, for an ordinary *)
(* user and for an owner, with or without a row.                           *)
(***************************************************************************)
CheckAccounts == {Contended} \cup OWNER

\* add_bandwidth_used (model.py:260-261) adds without a cap, and only
\* reset_free lowers bandwidth_used, so total_bandwidth >= bandwidth_used
CheckRows ==
    {[free |-> f, paid |-> p, bandwidth_used |-> b, total_bandwidth |-> b,
      is_blocked |-> k] :
        f \in 0..MaxFree, p \in 0..MaxPaid, b \in 0..(MaxBandwidth + 1),
        k \in {0, 1}}

InitCheck ==
    /\ \E D \in SUBSET CheckAccounts : users \in [D -> CheckRows]
    /\ txn = [t \in Txns |-> NoSession]
    /\ req = [r \in Reqs |-> NewRequest]
    /\ cache = <<>>
    /\ cancellation_events = {}
    /\ resume_state_cache = <<>>
    /\ callbacks = [c \in Callbacks |-> NoCallback]
    /\ InitProcess

NextCheck ==
    \/ \E uid \in CheckAccounts : CheckQuota(Caller, uid)
    \/ \E uid \in CheckAccounts : UseQuota(Caller, uid)

SpecCheck == InitCheck /\ [][NextCheck]_vars

(***************************************************************************)
(* The strategy registry as a function of the URL:                         *)
(* special_download_entrance applied to every URL of a bounded set, with   *)
(* hostnames of up to MaxHostLen pieces, a path with or without an         *)
(* extension and a query with or without one.                              *)
(***************************************************************************)
MaxHostLen == 2
RegistryUrls ==
    LET HostPieces ==
            {"www.", "m.", "youtube.com", "youtu.be", "vt.", "tiktok.com",
             "krakenfiles.com", "example.com"}
        Hostnames == UNION {[1..n -> HostPieces] : n \in 0..MaxHostLen}
        Paths ==
            {<<>>, <<"/">>, <<"/", "v">>, <<"/", "v", ".mp4">>,
             <<"/", "v", ".MP4">>, <<"/", "v", ".mp4", "-info">>,
             <<"/", "v", ".html">>}
        Queries == {<<>>, <<"?", "q">>, <<"?", "q", ".zip">>}
    IN  {h \o p \o q : h \in Hostnames, p \in Paths, q \in Queries}

\* one call of special_download_entrance (engine/__init__.py:91-113); the
\* handler called or the error raised is kept in via
Resolve(r, url) ==
    /\ req[r].pc = "new"
    /\ LET special == special_download_entrance(url) IN
         req' = [req EXCEPT
                   ![r].url = url, ![r].entry = "spdl",
                   ![r].via = special,
                   ![r].exc = IF special \in EntranceErrors
                              THEN "ValueError" ELSE "",
                   ![r].pc = "resolved"]
    /\ UNCHANGED <<users, txn, cache, cancellation_events, resume_state_cache, callbacks, process>>

InitRegistry == InitKey

NextRegistry == \E url \in RegistryUrls : Resolve(1, url)

SpecRegistry == InitRegistry /\ [][NextRegistry]_vars

(***************************************************************************)
(* YoutubeDownload._setup_formats (generic.py:275-356) as a function of    *)
(* the quality button, the stored quality and the stored format, for a     *)
(* YouTube URL.  A format specifier is named by what it asks for.          *)
(***************************************************************************)
\* maps[f"{quality}-{format_}"] (generic.py:333-346), the specifiers of the
\* stored preference; get_format is generic.py:269-273
maps(quality, format) ==
    LET get_format(m) == <<"mp4_height_" \o m, "avc_height_" \o m>>
    IN  IF quality = "custom" THEN <<>>
        ELSE IF format = "audio" THEN <<"bestaudio_ext">>
        ELSE IF quality = "high" THEN Defaults
        ELSE IF quality = "medium" THEN get_format("720")
        ELSE get_format("480")

\* _setup_formats (generic.py:275-356)
setup_formats_of(selected_quality, quality, format) ==
    IF selected_quality # ""
    THEN (IF selected_quality = "audio" THEN QualityMap(selected_quality)
          ELSE QualityMap(selected_quality) \o Defaults)
    ELSE IF quality # "high" THEN maps(quality, format) \o Defaults
    ELSE maps(quality, format)

\* a downloader for a YouTube URL is constructed for any quality button
\* (main.py:515-528, "" for none) and any value of Setting.quality and
\* Setting.format that the maps have a key for
InitFormats ==
    /\ users = [u \in Users |-> User(FREE_DOWNLOAD, 0)]
    /\ txn = [t \in Txns |-> NoSession]
    /\ \E sel \in {"", "1080", "720", "480", "360", "audio"},
          quality \in {"high", "medium", "low", "custom"},
          format \in {"video", "audio", "document"} :
          req = [r \in Reqs |->
                   IF r = 1
                   THEN [NewRequest EXCEPT
                           !.pc = "start", !.url = YT, !.selected = sel,
                           !.quality = <<quality>>, !.fmt0 = <<format>>,
                           !.format = <<format>>]
                   ELSE NewRequest]
    /\ cache = <<>>
    /\ cancellation_events = {}
    /\ resume_state_cache = <<>>
    /\ callbacks = [c \in Callbacks |-> NoCallback]
    /\ InitProcess

\* _start's call of _setup_formats (generic.py:436-438)
SetupFormats(r) ==
    /\ req[r].pc = "start"
    /\ req' = [req EXCEPT
                 ![r].formats = setup_formats_of(req[r].selected,
                                                 req[r].quality[1],
                                                 req[r].fmt0[1]),
                 ![r].idx = 1,
                 ![r].pc = "chain"]
    /\ UNCHANGED <<users, txn, cache, cancellation_events, resume_state_cache, callbacks, process>>

NextFormats == SetupFormats(1)

SpecFormats == InitFormats /\ [][NextFormats]_vars

(***************************************************************************)
(* try_update_ytdlp (generic.py:142-198) statement by statement, called by *)
(* requests on different worker threads (main.py:57-63) whose chains all   *)
(* failed with an extraction error.  The flag is tested and then assigned  *)
(* by two statements with no lock around them, so another thread can run   *)
(* between the two.                                                        *)
(***************************************************************************)
\* the process has not been replaced by restart_bot (generic.py:129-139)
Running == \A r \in Reqs : req[r].pc # "restarted"

\* "if _ytdlp_update_attempted: ... return False" (generic.py:150-152)
UpdateTest(r) ==
    /\ Running /\ req[r].pc = "update"
    /\ req' = [req EXCEPT
                 ![r].error = IF ytdlp_update_attempted THEN "no_formats" ELSE @,
                 ![r].pc = IF ytdlp_update_attempted THEN "failed"
                           ELSE "update_set"]
    /\ UNCHANGED <<users, txn, cache, cancellation_events, resume_state_cache, callbacks, process>>

\* "_ytdlp_update_attempted = True" (generic.py:154)
UpdateSet(r) ==
    /\ Running /\ req[r].pc = "update_set"
    /\ ytdlp_update_attempted' = TRUE
    /\ req' = [req EXCEPT ![r].attempted = TRUE, ![r].pc = "update_check"]
    /\ UNCHANGED <<users, txn, cache, cancellation_events, resume_state_cache, callbacks,
                   youtube_url_cache, last_called, lock, clock>>

\* check_ytdlp_update_available (generic.py:156-163, 40-70)
UpdateCheck(r, update_available) ==
    /\ Running /\ req[r].pc = "update_check"
    /\ req' = [req EXCEPT
                 ![r].network = TRUE,
                 ![r].error = IF update_available THEN @ ELSE "no_formats",
                 ![r].pc = IF update_available THEN "install" ELSE "failed"]
    /\ UNCHANGED <<users, txn, cache, cancellation_events, resume_state_cache, callbacks, process>>

\* pip install --upgrade and, when the version changed, restart_bot
\* (generic.py:167-198)
UpdateInstall(r, installed) ==
    /\ Running /\ req[r].pc = "install"
    /\ req' = [req EXCEPT
                 ![r].error = IF installed THEN @ ELSE "no_formats",
                 ![r].pc = IF installed THEN "restarted" ELSE "failed"]
    /\ UNCHANGED <<users, txn, cache, cancellation_events, resume_state_cache, callbacks, process>>

\* every request is a YouTube download, with or without a quality button,
\* whose candidates have all failed, the last of them at extraction
InitUpdate ==
    /\ users = [u \in Users |-> User(FREE_DOWNLOAD, 0)]
    /\ txn = [t \in Txns |-> NoSession]
    /\ \E sel \in [Reqs -> Selections], fmt \in [Reqs -> Formats] :
          req = [r \in Reqs |->
                   [NewRequest EXCEPT
                      !.pc = "update", !.user = r, !.url = YT,
                      !.selected = sel[r], !.fmt0 = fmt[r],
                      !.quality = InitQuality(YT, sel[r]),
                      !.format = setup_format(sel[r], InitFormat(YT, fmt[r], sel[r])),
                      !.formats = setup_formats(sel[r], fmt[r]),
                      !.idx = Len(setup_formats(sel[r], fmt[r])),
                      !.extraction_error_encountered = TRUE]]
    /\ cache = <<>>
    /\ cancellation_events = {}
    /\ resume_state_cache = <<>>
    /\ callbacks = [c \in Callbacks |-> NoCallback]
    /\ InitProcess

NextUpdate ==
    \E r \in Reqs :
        \/ UpdateTest(r)
        \/ UpdateSet(r)
        \/ \E update_available \in BOOLEAN : UpdateCheck(r, update_available)
        \/ \E installed \in BOOLEAN : UpdateInstall(r, installed)

SpecUpdate == InitUpdate /\ [][NextUpdate]_vars

(***************************************************************************)
(* The quality prompt: download_handler's branch for a YouTube link        *)
(* (main.py:496-534) stores the URL in _youtube_url_cache, and             *)
(* youtube_quality_callback (main.py:705-756) takes it out when a button   *)
(* of the prompt is pressed.  Request r is the prompt sent to the user of  *)
(* message r; each prompt is answered by one button press.                 *)
(***************************************************************************)
ShortUrl == <<"youtu.be", "/", "id">>

\* url_hash (main.py:498-499): the first 8 hex digits of md5(url), taken as
\* injective on the URLs
url_hash(url) == url

\* download_handler for a YouTube link, up to its return (main.py:496-534)
Prompt(r, u, url) ==
    /\ req[r].pc = "new"
    /\ is_youtube(url)
    /\ youtube_url_cache' = store(youtube_url_cache, url_hash(url), url)
    /\ req' = [req EXCEPT ![r].entry = "message", ![r].user = u, ![r].url = url,
                           ![r].network = TRUE, ![r].replied = TRUE,
                           ![r].pc = "menu"]
    /\ UNCHANGED <<users, txn, cache, cancellation_events, resume_state_cache, callbacks,
                   ytdlp_update_attempted, last_called, lock, clock>>

\* youtube_quality_callback up to "if not url: ... return"
\* (main.py:708-723); the button carries the url_hash of its prompt
SelectGet(r, quality) ==
    /\ req[r].pc = "menu"
    /\ LET key == url_hash(req[r].url) IN
         req' = [req EXCEPT
                   ![r].selected = quality,
                   ![r].error = IF key \in DOMAIN youtube_url_cache THEN @
                                ELSE "expired",
                   ![r].pc = IF key \in DOMAIN youtube_url_cache THEN "picked"
                             ELSE "ended"]
    /\ UNCHANGED <<users, txn, cache, cancellation_events, resume_state_cache, callbacks, process>>

\* "_youtube_url_cache.pop(url_hash, None)" and the call of
\* youtube_entrance_with_quality (main.py:725-753)
SelectPop(r) ==
    /\ req[r].pc = "picked"
    /\ youtube_url_cache' = pop(youtube_url_cache, url_hash(req[r].url)).dict
    /\ req' = [req EXCEPT ![r].entry = "quality", ![r].route = "youtube",
                           ![r].pc = "start"]
    /\ UNCHANGED <<users, txn, cache, cancellation_events, resume_state_cache, callbacks,
                   ytdlp_update_attempted, last_called, lock, clock>>

InitPrompt == InitKey

NextPrompt ==
    \E r \in Reqs :
        \/ \E u \in Users, url \in {WatchUrl, ShortUrl} : Prompt(r, u, url)
        \/ \E quality \in {"720", "audio"} : SelectGet(r, quality)
        \/ SelectPop(r)

SpecPrompt == InitPrompt /\ [][NextPrompt]_vars

(***************************************************************************)
(* debounce (helper.py:6-32) around BaseDownloader.edit_text               *)
(* (base.py:176-186).  The decorator is applied once, to the method of the *)
(* class, so last_called and lock exist once in the process and serve      *)
(* every transfer.  A thread is a progress callback (download_hook,        *)
(* upload_hook); req[t].key is the status message of its transfer,         *)
(* req[t].now the value of time.time() at helper.py:19, req[t].sent the    *)
(* times at which the thread called the transport.                         *)
(***************************************************************************)
Threads == {1, 2, 3}
Messages == {1, 2}
wait_seconds == 5
MaxClock == 5

\* a thread that can run runs at once; time passes while every thread is
\* outside the wrapper, waits for the lock, or waits for the transport
Tick ==
    /\ clock < MaxClock
    /\ \A t \in Threads :
           \/ req[t].pc \in {"idle", "func"}
           \/ req[t].pc = "lock" /\ lock # 0
    /\ clock' = clock + 1
    /\ UNCHANGED <<users, txn, req, cache, cancellation_events, resume_state_cache,
                   callbacks, ytdlp_update_attempted, youtube_url_cache,
                   last_called, lock>>

\* helper.py:19-23: now = time.time(), key of the status message
Wrapper(t) ==
    /\ req[t].pc = "idle"
    /\ req' = [req EXCEPT ![t].now = clock, ![t].pc = "lock"]
    /\ UNCHANGED <<users, txn, cache, cancellation_events, resume_state_cache,
                   callbacks, process>>

\* helper.py:25: with lock
Acquire(t) ==
    /\ req[t].pc = "lock"
    /\ lock = 0
    /\ lock' = t
    /\ req' = [req EXCEPT ![t].pc = "test"]
    /\ UNCHANGED <<users, txn, cache, cancellation_events, resume_state_cache,
                   callbacks, ytdlp_update_attempted, youtube_url_cache,
                   last_called, clock>>

\* helper.py:26
Due(t) ==
    \/ req[t].key \notin DOMAIN last_called
    \/ req[t].now - last_called[req[t].key] >= wait_seconds

\* helper.py:26-28: the test, the stamp and the call of edit_text, which
\* calls the transport (base.py:184); a thread that is not due leaves the
\* with-block
Test(t) ==
    /\ req[t].pc = "test"
    /\ IF Due(t)
       THEN /\ last_called' = [k \in DOMAIN last_called \cup {req[t].key} |->
                                 IF k = req[t].key THEN req[t].now
                                 ELSE last_called[k]]
            /\ req' = [req EXCEPT ![t].sent = @ \cup {clock}, ![t].pc = "func"]
            /\ UNCHANGED lock
       ELSE /\ req' = [req EXCEPT ![t].pc = "idle"]
            /\ lock' = 0
            /\ UNCHANGED last_called
    /\ UNCHANGED <<users, txn, cache, cancellation_events, resume_state_cache,
                   callbacks, ytdlp_update_attempted, youtube_url_cache, clock>>

\* base.py:183-186 and helper.py:28: the transport answers or raises, the
\* exception is swallowed, the with-block ends
Func(t) ==
    /\ req[t].pc = "func"
    /\ lock' = 0
    /\ req' = [req EXCEPT ![t].pc = "idle"]
    /\ UNCHANGED <<users, txn, cache, cancellation_events, resume_state_cache,
                   callbacks, ytdlp_update_attempted, youtube_url_cache,
                   last_called, clock>>

InitDebounce ==
    /\ users = [u \in Users |-> User(FREE_DOWNLOAD, 0)]
    /\ txn = [t \in Txns |-> NoSession]
    /\ req \in [Threads -> [pc : {"idle"}, now : {0}, key : Messages, sent : {{}}]]
    /\ cache = <<>>
    /\ cancellation_events = {}
    /\ resume_state_cache = <<>>
    /\ callbacks = [c \in Callbacks |-> NoCallback]
    /\ InitProcess

NextDebounce ==
    \/ Tick
    \/ \E t \in Threads : Wrapper(t)
    \/ \E t \in Threads : Acquire(t)
    \/ \E t \in Threads : Test(t)
    \/ \E t \in Threads : Func(t)

SpecDebounce == InitDebounce /\ [][NextDebounce]_vars

(***************************************************************************)
(* BaseDownloader._upload_split_video (base.py:427-492), part by part.     *)
(* req[r].num_parts is len(parts); req[r].sent_messages holds the caption  *)
(* that each sent part shows in the chat: "full" is the part label         *)
(* followed by the full caption, "label" the part label alone.             *)
(***************************************************************************)
MaxNumParts == 4

\* base.py:453-466 and 480-482: send_video with the label and the full
\* caption; an exception becomes a ValueError
SendPart(r, ok) ==
    /\ req[r].pc = "send"
    /\ Len(req[r].sent_messages) < req[r].num_parts
    /\ req' = [req EXCEPT
                 ![r].sent_messages = IF ok THEN Append(@, "full") ELSE @,
                 ![r].prev_idx = 1,
                 ![r].pc = IF ~ok THEN "failed"
                           ELSE IF Len(req[r].sent_messages) = 0 THEN "send"
                           ELSE "edit"]
    /\ UNCHANGED <<users, txn, cache, cancellation_events, resume_state_cache,
                   callbacks, process>>

\* base.py:469-478: edit_message_caption of one previous part; a failure
\* is logged and the loop goes on
EditPrevCaption(r, ok) ==
    /\ req[r].pc = "edit"
    /\ LET last == req[r].prev_idx = Len(req[r].sent_messages) - 1
           all == Len(req[r].sent_messages) = req[r].num_parts
       IN  req' = [req EXCEPT
                     ![r].sent_messages[req[r].prev_idx] = IF ok THEN "label" ELSE @,
                     ![r].prev_idx = @ + 1,
                     ![r].pc = IF ~last THEN "edit"
                               ELSE IF all THEN "done" ELSE "send"]
    /\ UNCHANGED <<users, txn, cache, cancellation_events, resume_state_cache,
                   callbacks, process>>

InitSplit ==
    /\ users = [u \in Users |-> User(FREE_DOWNLOAD, 0)]
    /\ txn = [t \in Txns |-> NoSession]
    /\ req \in [Reqs -> [pc : {"send"}, num_parts : 2..MaxNumParts,
                         sent_messages : {<<>>}, prev_idx : {1}]]
    /\ cache = <<>>
    /\ cancellation_events = {}
    /\ resume_state_cache = <<>>
    /\ callbacks = [c \in Callbacks |-> NoCallback]
    /\ InitProcess

NextSplit ==
    \E r \in Reqs, ok \in BOOLEAN :
        \/ SendPart(r, ok)
        \/ EditPrevCaption(r, ok)

SpecSplit == InitSplit /\ [][NextSplit]_vars

(***************************************************************************)
(* BaseDownloader._split_video_if_needed (base.py:361-425).  Sizes are in  *)
(* tenths of a GiB, so that target_size is 19 and the limits are ten times *)
(* TG_NORMAL_MAX_SIZE and MAX_DOWNLOAD_SIZE.  A video is the sequence of   *)
(* the bytes that each slice of its duration holds; the duration is a      *)
(* multiple of every part count that can occur, so that duration /         *)
(* num_parts is exact.  ffmpeg cuts by time with the streams copied: a     *)
(* part holds the bytes of the slices of its interval.                     *)
(***************************************************************************)
SizeUnit == 10
target_size == 19
DurationUnits == 1
SliceBytes == {1, 9}
duration == 6 * DurationUnits

RECURSIVE SliceSum(_, _, _)
SliceSum(slices, a, b) ==
    IF a > b THEN 0 ELSE slices[a] + SliceSum(slices, a + 1, b)

file_size(slices) == SliceSum(slices, 1, Len(slices))

\* the files that download_hook lets through (base.py:155)
Videos ==
    {v \in [1..duration -> SliceBytes] :
         file_size(v) <= MAX_DOWNLOAD_SIZE * SizeUnit}

\* base.py:391: math.ceil(file_size / target_size)
ceil_parts(size) == (size + target_size - 1) \div target_size

\* base.py:369-392: the size test, the probe and the plan
SplitPlan(r, probed) ==
    /\ req[r].pc = "probe"
    /\ LET size == file_size(req[r].video)
       IN  req' = [req EXCEPT
                     ![r].num_parts = ceil_parts(size),
                     ![r].part_duration = duration \div ceil_parts(size),
                     ![r].parts = IF size <= TG_NORMAL_MAX_SIZE * SizeUnit
                                  THEN <<[start_time |-> 0, t |-> duration,
                                          size |-> size]>>
                                  ELSE <<>>,
                     ![r].pc = IF size <= TG_NORMAL_MAX_SIZE * SizeUnit THEN "whole"
                               ELSE IF probed THEN "cut" ELSE "failed"]
    /\ UNCHANGED <<users, txn, cache, cancellation_events, resume_state_cache,
                   callbacks, process>>

\* base.py:397-417: one turn of the loop, ffmpeg -ss start_time -t
\* part_duration -c copy; an ffmpeg error removes the parts made so far
CutPart(r, ok) ==
    /\ req[r].pc = "cut"
    /\ LET i == Len(req[r].parts)
           start_time == i * req[r].part_duration
           part == [start_time |-> start_time, t |-> req[r].part_duration,
                    size |-> SliceSum(req[r].video, start_time + 1,
                                      start_time + req[r].part_duration)]
       IN  req' = [req EXCEPT
                     ![r].parts = IF ok THEN Append(@, part) ELSE <<>>,
                     ![r].pc = IF ~ok THEN "failed"
                               ELSE IF i + 1 = req[r].num_parts THEN "done"
                               ELSE "cut"]
    /\ UNCHANGED <<users, txn, cache, cancellation_events, resume_state_cache,
                   callbacks, process>>

InitCut ==
    /\ users = [u \in Users |-> User(FREE_DOWNLOAD, 0)]
    /\ txn = [t \in Txns |-> NoSession]
    /\ req \in [Reqs -> [pc : {"probe"}, video : Videos, num_parts : {0},
                         part_duration : {0}, parts : {<<>>}]]
    /\ cache = <<>>
    /\ cancellation_events = {}
    /\ resume_state_cache = <<>>
    /\ callbacks = [c \in Callbacks |-> NoCallback]
    /\ InitProcess

NextCut ==
    \E r \in Reqs, ok \in BOOLEAN :
        \/ SplitPlan(r, ok)
        \/ CutPart(r, ok)

SpecCut == InitCut /\ [][NextCut]_vars

C1_AtMostOneDeduction == \A r \in Reqs : req[r].calls <= 1

(***************************************************************************)
(* C3: of two requests of one user that both passed check_quota on a       *)
(* balance of exactly 1, at most one goes on to transfer and deliver.      *)
(***************************************************************************)
C3_CheckThenDeductAtomic ==
    \A r1, r2 \in Reqs :
        (/\ r1 # r2
         /\ req[r1].user = req[r2].user
         /\ req[r1].pc \notin {"new", "denied"} /\ req[r1].balance0 = 1
         /\ req[r2].pc \notin {"new", "denied"} /\ req[r2].balance0 = 1)
        => ~(/\ req[r1].transferred /\ req[r1].delivered
             /\ req[r2].transferred /\ req[r2].delivered)

(***************************************************************************)
(* C4: a request whose transfer ended without a delivered result, because  *)
(* the user cancelled it or every fetch backend failed, leaves the user's  *)
(* free allowance, paid balance and bandwidth counters as they were before *)
(* the request.                                                            *)
(***************************************************************************)
C4_NoDeliveryNoCharge ==
    \A r \in Reqs :
        (/\ req[r].pc \in Terminal
         /\ ~req[r].delivered
         /\ req[r].error \in {"cancelled", "all_backends_failed"})
        => users[req[r].user] = req[r].row0

(***************************************************************************)
(* C5: the quota deduction of a request happens only after its upload has  *)
(* succeeded: a request that has been charged has been delivered.          *)
(***************************************************************************)
C5_DeductionAfterUpload ==
    \A r \in Reqs : req[r].charged > 0 => req[r].delivered
(***************************************************************************)
(* C6: when a request of one user has been delivered and another user     *)
(* then requests the same (url, quality, format), the second request is    *)
(* served from the cache and no second transfer takes place.               *)
(***************************************************************************)
C6_SecondRequestIsCacheHit ==
    \A r \in Reqs : \A q \in req[r].peers :
        (/\ req[r].pc \notin {"new", "denied", "lookup"}
         /\ req[q].user # req[r].user
         /\ req[q].url = req[r].url
         /\ req[q].fmt0 = req[r].fmt0
         /\ req[q].selected = req[r].selected)
        => req[r].hit /\ ~req[r].transferred

(***************************************************************************)
(* C7: when cancel is invoked before the transfer has reached its first    *)
(* chunk boundary, then once the cancellation is observed no further       *)
(* format candidate or upload method is attempted, nothing is delivered    *)
(* and no cache entry is written for the request.                          *)
(***************************************************************************)
C7_EarlyCancelStopsTransfer ==
    \A r \in Reqs :
        (req[r].cancelled_early /\ req[r].cancel_observed)
        => /\ ~req[r].afterCancel
           /\ ~req[r].delivered
           /\ req[r].wrote = <<>>

(***************************************************************************)
(* C8: the chain of format candidates advances in list order and stops     *)
(* only at a candidate that yielded an output file: when the chain has     *)
(* stopped and handed over to the upload, the candidate it stopped at is   *)
(* the one that was running and its output is in the working directory.    *)
(***************************************************************************)
C8_ChainStopsAtFirstOutput ==
    \A r \in Reqs :
        (Strategy(req[r].url) = "youtube" /\ req[r].pc = "upload"
         /\ ~req[r].hit)
        => /\ req[r].stopped = req[r].idx
           /\ MediaFiles(req[r].tempdir) # {}

(***************************************************************************)
(* C10: when a transfer fails with a network-class error after bytes have  *)
(* been written, a resume snapshot is stored under the request's token.    *)
(***************************************************************************)
C10_NetworkFailureStoresSnapshot ==
    \A r \in Reqs :
        (req[r].pc = "failed" /\ req[r].error = "network"
         /\ req[r].chunks > 0)
        => r \in DOMAIN resume_state_cache
(***************************************************************************)
(* C9: a resume snapshot is consumed at most once: the resume callbacks    *)
(* that obtained a snapshot for a token never outnumber the snapshots      *)
(* stored under it, a resume removes the entry and returns what was        *)
(* stored, and a resume that finds no entry is answered with a miss and    *)
(* starts nothing.                                                         *)
(***************************************************************************)
C9_SnapshotConsumedOnce ==
    /\ [](\A token \in Reqs :
            Cardinality({c \in Callbacks :
                            /\ callbacks[c].state_hash = token
                            /\ callbacks[c].pc \in {"popped", "started"}})
                <= req[token].snapshots)
    /\ [][\A c \in Callbacks, token \in Reqs :
            ResumePop(c, token) =>
                /\ token \notin DOMAIN resume_state_cache'
                /\ IF token \in DOMAIN resume_state_cache
                   THEN /\ callbacks'[c].pc = "popped"
                        /\ callbacks'[c].resume_state
                              = resume_state_cache[token]
                   ELSE callbacks'[c].pc = "expired"]_vars
    /\ [][\A c \in Callbacks :
            callbacks'[c].pc = "started" => callbacks[c].pc \in {"popped", "started"}]_vars

C9_Witness ==
    \E c1, c2 \in Callbacks :
        /\ callbacks[c1].pc = "started"
        /\ callbacks[c2].pc = "expired"
        /\ callbacks[c1].state_hash = callbacks[c2].state_hash
        /\ req[callbacks[c1].state_hash].snapshots = 1

(***************************************************************************)
(* C11: for every account - an ordinary user, an owner, a user without a   *)
(* row - a use_quota that directly follows a check_quota that passed for   *)
(* the same account, with no other operation in between, does not raise.   *)
(***************************************************************************)
C11_PassedCheckThenUseSucceeds ==
    [][\A uid \in Accounts :
         (/\ txn[Caller].op = "check_quota"
          /\ txn[Caller].status = "passed"
          /\ txn[Caller].uid = uid
          /\ UseQuota(Caller, uid))
         => txn'[Caller].status # "raised"]_vars

(***************************************************************************)
(* C12: deductions are atomic read-modify-write operations: among          *)
(* concurrent deductions of one user, every use_quota that succeeds        *)
(* (commits) lowers free + paid by exactly one and every add_bandwidth_used*)
(* that commits raises both bandwidth counters by exactly its size, so no  *)
(* update is lost.                                                         *)
(***************************************************************************)
C12_NoLostUpdate ==
    [][\A t \in Txns :
         Commit(t) =>
            LET u == txn[t].uid IN
            /\ txn[t].op = "use_quota" =>
                  users'[u].free + users'[u].paid
                     = users[u].free + users[u].paid - 1
            /\ txn[t].op = "add_bandwidth_used" =>
                  /\ users'[u].bandwidth_used
                        = users[u].bandwidth_used + txn[t].size
                  /\ users'[u].total_bandwidth
                        = users[u].total_bandwidth + txn[t].size]_vars

(***************************************************************************)
(* C13: a source whose advertised total size is above MAX_DOWNLOAD_SIZE is *)
(* aborted before any of its bytes are written to the working directory,   *)
(* and the abort ends the request: no further format candidate is          *)
(* attempted and nothing is delivered.                                     *)
(***************************************************************************)
C13_OversizedAbortsBeforeWrite ==
    \A r \in Reqs :
        req[r].aborted = "too_large"
        => /\ (Strategy(req[r].url) = "direct" => req[r].chunks = 0)
           /\ ~req[r].afterAbort
           /\ ~req[r].delivered

(***************************************************************************)
(* C14: when a format candidate fails fatally, as a live stream rejected   *)
(* by match_filter does, the chain is aborted at once: no further          *)
(* candidate is attempted and nothing is delivered.                        *)
(***************************************************************************)
C14_FatalAbortsChain ==
    \A r \in Reqs :
        req[r].aborted = "live"
        => /\ ~req[r].afterAbort
           /\ req[r].pc \notin {"upload", "split", "record", "done"}

C16_LastPutWins ==
    [][\A t \in Txns :
         AddCacheCommit(t)
         => get_cache(cache', Call(t)[1]) = Call(t)[2]]_vars

(***************************************************************************)
(* C17: the cache round trip.  An add_cache(k, e) that ran without another *)
(* call creating or removing the row of k in its middle is followed by a   *)
(* get_cache(k) that returns an entry equal to e, and a delete_cache(k) is *)
(* followed by a get_cache(k) that returns the miss.                       *)
(***************************************************************************)
C17_CacheRoundTrip ==
    [][\A t \in Txns :
         /\ (AddCacheCommit(t) /\ ~FlushFails(t))
               => /\ txn'[t].status = "committed"
                  /\ get_cache(cache', Call(t)[1]) = Call(t)[2]
         /\ \A k \in CacheKeys :
               DeleteCache(t, k) => get_cache(cache', k) = Miss]_vars

\* an entry was put over the row of its key and a get_cache of the key
\* returned it
C17_Witness ==
    \E t1, t2 \in Txns :
        /\ txn[t1].op = "add_cache_update" /\ txn[t1].status = "committed"
        /\ get_cache(cache, Call(t1)[1]) = Call(t1)[2]
        /\ txn[t2].op = "get_cache"
        /\ txn[t2].writes = txn[t1].writes

(***************************************************************************)
(* C18: for a user with free = 0 and paid = 0, a request for any URL       *)
(* through any entry point is denied with the quota-exhausted error, and   *)
(* no network call toward the source (metadata extraction, page scrape,    *)
(* download) is made for it.                                               *)
(***************************************************************************)
C18_ExhaustedDeniedBeforeNetwork ==
    \A r \in Reqs :
        (/\ req[r].entry # ""
         /\ users[req[r].user].free = 0 /\ users[req[r].user].paid = 0
         /\ users[req[r].user].is_blocked = 0)
        => /\ ~req[r].network
           /\ req[r].pc \in {"menu", "ended"} => req[r].error = "exhausted"

(***************************************************************************)
(* C19: at every entry point, a request that ends on a terminal condition  *)
(* (quota denial, unsupported source, content unavailable, size exceeded,  *)
(* all candidates exhausted) has sent the user a message.                  *)
(***************************************************************************)
C19_TerminalConditionAnswered ==
    \A r \in Reqs :
        (req[r].pc = "ended" /\ req[r].error # "") => req[r].replied

C21_FailsExactlyWhenOverCap ==
    \A uid \in CheckAccounts :
        (/\ txn[Caller].op = "check_quota" /\ txn[Caller].uid = uid
         /\ uid \in DOMAIN users)
        => (txn[Caller].status = "raised"
              <=> \/ users[uid].is_blocked # 0
                  \/ users[uid].free + users[uid].paid <= 0
                  \/ users[uid].bandwidth_used > FREE_BANDWIDTH)

(***************************************************************************)
(* C21, as the code has it: check_quota fails exactly when the account is  *)
(* not an owner, has a row in the users table, and is blocked, or has      *)
(* free + paid <= 0, or has used at least the daily bandwidth cap; it      *)
(* passes in every other case.                                             *)
(***************************************************************************)
C21_FailsExactlyWhenCapReached ==
    \A uid \in CheckAccounts :
        (txn[Caller].op = "check_quota" /\ txn[Caller].uid = uid)
        => (txn[Caller].status = "raised"
              <=> /\ uid \notin OWNER
                  /\ uid \in DOMAIN users
                  /\ \/ users[uid].is_blocked # 0
                     \/ users[uid].free + users[uid].paid <= 0
                     \/ users[uid].bandwidth_used >= FREE_BANDWIDTH)

\* a user with quota left who is not blocked was denied with the daily
\* bandwidth exactly at the cap
C21_Witness ==
    /\ txn[Caller].op = "check_quota" /\ txn[Caller].status = "raised"
    /\ txn[Caller].uid \in DOMAIN users
    /\ LET row == users[txn[Caller].uid] IN
         /\ row.is_blocked = 0
         /\ row.free + row.paid > 0
         /\ row.bandwidth_used = FREE_BANDWIDTH

(***************************************************************************)
(* C22: every deduction recorded for a transfer of n bytes increases both  *)
(* the daily and the lifetime bandwidth counter of the user by exactly n:  *)
(* a request that transferred and delivered a file of n bytes and was      *)
(* charged for it ends with both counters n above their value at its       *)
(* start, from whichever balance the unit was drawn.                       *)
(***************************************************************************)
C22_DeductionCountsBytes ==
    \A r \in Reqs :
        (/\ req[r].pc = "done" /\ req[r].charged > 0
         /\ req[r].transferred /\ req[r].delivered /\ ~req[r].hit)
        => LET row == users[req[r].user] IN
           /\ row.bandwidth_used = req[r].row0.bandwidth_used + req[r].size
           /\ row.total_bandwidth = req[r].row0.total_bandwidth + req[r].size

(***************************************************************************)
(* C23: special_download_entrance resolves every URL that has a hostname:  *)
(* if the hostname ends with a suffix of the static table, the handler of  *)
(* the first matching entry is called; otherwise, if the path of the URL   *)
(* has a media-file extension, the direct downloader is called; otherwise  *)
(* the resolution fails with an error and no handler is called.            *)
(***************************************************************************)
C23_ResolvesByTableThenPathExtension ==
    \A r \in Reqs :
        (req[r].pc = "resolved" /\ urlparse(req[r].url).hostname # <<>>)
        => LET hits == Matches(urlparse(req[r].url).hostname) IN
           IF hits # {}
           THEN \E i \in hits :
                   /\ \A j \in hits : i <= j
                   /\ req[r].via = DOWNLOADER_MAP[i].handler
           ELSE IF has_media_extension(req[r].url)
           THEN req[r].via = "direct_entrance"
           ELSE req[r].via \in EntranceErrors /\ req[r].exc = "ValueError"

(***************************************************************************)
(* C23, as the code has it: a URL without a hostname is rejected as an     *)
(* invalid link; a URL whose hostname ends with youtube.com or is youtu.be *)
(* is rejected with the guidance error; otherwise the handler of the first *)
(* table entry whose suffix the hostname ends with is called; otherwise,   *)
(* if the lower-cased URL contains a listed extension anywhere (hostname,  *)
(* path or query), the direct downloader is called; otherwise the          *)
(* resolution fails with the no-downloader error and no handler is called. *)
(***************************************************************************)
C23_ResolvesByTableThenUrlSubstring ==
    \A r \in Reqs :
        req[r].pc = "resolved"
        => LET hostname == urlparse(req[r].url).hostname
               hits     == Matches(hostname)
               text     == lower(req[r].url)
           IN  /\ req[r].via = "invalid_link" <=> hostname = <<>>
               /\ req[r].via = "youtube_hint"
                     <=> /\ hostname # <<>>
                         /\ \/ hostname[Len(hostname)] = "youtube.com"
                            \/ hostname = <<"youtu.be">>
               /\ req[r].via \notin {"invalid_link", "youtube_hint"}
                     => IF hits # {}
                        THEN \E i \in hits :
                                /\ \A j \in hits : i <= j
                                /\ req[r].via = DOWNLOADER_MAP[i].handler
                        ELSE IF \E i \in 1..Len(text) : text[i] \in MEDIA_EXTENSIONS
                        THEN req[r].via = "direct_entrance"
                        ELSE req[r].via = "no_downloader"
               /\ req[r].exc = "ValueError" <=> req[r].via \in EntranceErrors

\* a URL whose path has no extension and whose query names an archive was
\* given to the direct downloader
C23_Witness ==
    \E r \in Reqs :
        /\ req[r].pc = "resolved"
        /\ req[r].via = "direct_entrance"
        /\ ~has_media_extension(req[r].url)
        /\ urlparse(req[r].url).hostname = <<"example.com">>

(***************************************************************************)
(* C24: every request whose URL authority is youtube.com, one of its       *)
(* subdomains or youtu.be is handled by the dedicated multi-format         *)
(* strategy: it ends at the quality menu or in the YouTube downloader, or  *)
(* the registry's guidance error is what the user is told; it is never     *)
(* given to a table handler or to the direct (generic-HTTP) downloader.    *)
(***************************************************************************)
C24_YouTubeHandledByDedicatedStrategy ==
    \A r \in Reqs :
        (/\ req[r].pc \in {"menu", "ended"} /\ req[r].entry # ""
         /\ LET hostname == urlparse(req[r].url).hostname IN
              endswith(hostname, <<"youtube.com">>) \/ hostname = <<"youtu.be">>)
        => /\ req[r].route # "direct"
           /\ req[r].via # "krakenfiles"
           /\ \/ req[r].pc = "menu"
              \/ req[r].route = "youtube"
              \/ req[r].error = "unsupported" /\ req[r].replied

(***************************************************************************)
(* C25: an exception raised while a delivered result is copied to the      *)
(* archive, or while an error report is sent to it, is caught: the copy    *)
(* that fails leaves the delivery as it was (delivered, answered, no       *)
(* error) and ends the request, and the report that fails leaves the       *)
(* original error in place and the reply of the except clause is the same  *)
(* as when the report was sent.                                            *)
(***************************************************************************)
C25_ArchiveFailureIsHarmless ==
    [][\A r \in Reqs :
         /\ \A raised \in BOOLEAN :
               Archive(r, raised)
               => /\ req'[r].pc = "ended"
                  /\ req'[r].delivered = req[r].delivered
                  /\ req'[r].replied = req[r].replied
                  /\ req'[r].error = req[r].error
                  /\ req'[r].exc = req[r].exc
         /\ \A raised \in BOOLEAN :
               Except(r, raised)
               => /\ req'[r].pc = "ended"
                  /\ req'[r].error = req[r].error
                  /\ req'[r].exc = req[r].exc
                  /\ req'[r].delivered = req[r].delivered
                  /\ req'[r].replied
                        = Answers(req[r].entry, req[r].via, req[r].exc)]_vars

\* a request was delivered and the copy to the archive raised
C25_Witness ==
    \E r \in Reqs :
        /\ req[r].pc = "ended"
        /\ req[r].archived = "failed"
        /\ req[r].delivered /\ req[r].replied /\ req[r].error = ""

(***************************************************************************)
(* C26: when reset_free completes (the commit of its session), every user  *)
(* has the default free allowance and a daily bandwidth of 0, and the paid *)
(* balance, the lifetime bandwidth and the blocked flag of every user are  *)
(* as they were; the two resets of a user take effect together, also when  *)
(* a deduction of that user runs concurrently.                             *)
(***************************************************************************)
C26_ResetFreeResetsBoth ==
    [][/\ \A t \in Txns :
         (txn[t].op = "reset_free" /\ Commit(t))
         => \A u \in Users :
               /\ users'[u].free = FREE_DOWNLOAD
               /\ users'[u].bandwidth_used = 0
               /\ users'[u].paid = users[u].paid
               /\ users'[u].total_bandwidth = users[u].total_bandwidth
               /\ users'[u].is_blocked = users[u].is_blocked
       \* a deduction that commits after the reset counts from the reset value
       /\ \A t, t2 \in Txns :
            (/\ txn[t].op = "add_bandwidth_used" /\ Commit(t)
             /\ txn[t2].op = "reset_free" /\ txn[t2].status = "committed"
             /\ users[txn[t].uid].bandwidth_used = 0)
            => users'[txn[t].uid].bandwidth_used = txn[t].size]_vars

(***************************************************************************)
(* C27: once a transfer has terminated (delivered, failed or cancelled),   *)
(* its identifier is not in the cancellation set, so that a cancel flag    *)
(* never outlives its transfer.                                            *)
(***************************************************************************)
C27_CancelFlagDiesWithTransfer ==
    \A r \in Reqs : req[r].pc \in Terminal => r \notin cancellation_events

(***************************************************************************)
(* C28: every request that ends in a successful delivery after a cache     *)
(* miss, an oversized result delivered as split parts included, has        *)
(* written a cache entry under its fingerprint.                            *)
(***************************************************************************)
C28_DeliveredAfterMissIsCached ==
    \A r \in Reqs :
        (req[r].pc = "done" /\ req[r].delivered /\ ~req[r].hit)
        => /\ req[r].wrote # <<>>
           /\ get_cache(cache, req[r].wrote) # Miss

(***************************************************************************)
(* C29: within one request the fingerprint under which the result is       *)
(* written to the cache equals the fingerprint that was looked up at the   *)
(* start of the request.                                                   *)
(***************************************************************************)
C29_WriteKeyIsLookupKey ==
    \A r \in Reqs : req[r].wrote # <<>> => req[r].wrote = req[r].key

C31_NoStrategyIsTerminal ==
    /\ [][\A entry \in {"message", "spdl", "resume"}, url \in EntryUrls :
            (/\ Dispatch(1, entry, Contended, url, "generic")
             /\ special_download_entrance(url) = "no_downloader")
            => req'[1].pc = "raised" /\ req'[1].route = ""]_vars
    /\ [](\A r \in Reqs :
            (/\ req[r].entry \in {"message", "spdl"}
             /\ special_download_entrance(req[r].url) = "no_downloader")
            => ~req[r].network /\ ~req[r].delivered)

(***************************************************************************)
(* C31, amended: when special_download_entrance finds no downloader, a     *)
(* /spdl request ends there with the ValueError, no fetch strategy is      *)
(* given the URL and nothing is fetched; for a plain message and for a     *)
(* resume of a snapshot of type generic the handler catches the error and  *)
(* gives the URL to the yt-dlp strategy (youtube_entrance).                *)
(***************************************************************************)
C31_NoStrategyIsTerminalForSpdl ==
    /\ [][\A entry \in {"message", "spdl", "resume"}, url \in EntryUrls :
            (/\ Dispatch(1, entry, Contended, url, "generic")
             /\ special_download_entrance(url) = "no_downloader")
            => IF entry = "spdl"
               THEN /\ req'[1].pc = "raised" /\ req'[1].route = ""
                    /\ req'[1].exc = "ValueError"
               ELSE req'[1].pc = "start" /\ req'[1].route = "youtube"]_vars
    /\ [](\A r \in Reqs :
            (/\ req[r].entry = "spdl"
             /\ special_download_entrance(req[r].url) = "no_downloader")
            => /\ ~req[r].network /\ ~req[r].delivered
               /\ req[r].pc \in {"raised", "ended"})

C31_Witness ==
    \E r \in Reqs :
        /\ req[r].entry = "spdl"
        /\ special_download_entrance(req[r].url) = "no_downloader"
        /\ req[r].pc = "ended" /\ req[r].replied

(***************************************************************************)
(* C32: for every quality button, stored quality and stored format the     *)
(* candidate list of _setup_formats is the specifiers of the button (if    *)
(* one was pressed), then the specifiers of the stored preference, then    *)
(* the generic fallbacks (unless the stored preference already is that     *)
(* list), and its last element is the unconstrained specifier None.        *)
(***************************************************************************)
C32_CandidateOrder ==
    \A r \in Reqs :
        req[r].pc = "chain" =>
            LET q        == req[r]
                explicit == IF q.selected = "" THEN <<>>
                            ELSE QualityMap(q.selected)
                stored   == maps(q.quality[1], q.fmt0[1])
            IN  /\ \E tail \in {<<>>, Defaults} :
                      q.formats = explicit \o stored \o tail
                /\ q.formats[Len(q.formats)] = "None"

(***************************************************************************)
(* C33: the automatic upgrade of the extraction library is attempted at    *)
(* most once in the life of the process, also when several requests reach  *)
(* try_update_ytdlp at the same time.                                      *)
(***************************************************************************)
C33_UpgradeAttemptedAtMostOnce ==
    Cardinality({r \in Reqs : req[r].attempted}) <= 1

(***************************************************************************)
(* C34: the automatic upgrade is attempted only when every candidate of    *)
(* the chain failed with an extraction error: a chain in which a candidate *)
(* failed for another reason, or gave no file without raising, does not    *)
(* reach try_update_ytdlp.                                                 *)
(***************************************************************************)
C34_UpgradeOnlyAfterExtractionFailures ==
    \A r \in Reqs :
        (req[r].pc = "update" \/ req[r].attempted) => ~req[r].other_failure

(***************************************************************************)
(* C35: a pending quality prompt belongs to the request that created it:   *)
(* the one button press on a prompt starts a download, and no prompt finds *)
(* its selection expired because of what was sent or selected elsewhere.   *)
(***************************************************************************)
C35_PromptBelongsToItsRequest ==
    \A r \in Reqs : req[r].error # "expired"

(***************************************************************************)
(* C36: a failure of a status-message edit never changes the outcome of a  *)
(* request: when the edit that follows a successful delivery is refused by *)
(* the transport, the request still ends as done, and a request that was   *)
(* not served from the cache is still billed by _record_usage.             *)
(***************************************************************************)
C36_EditFailureIsHarmless ==
    \A r \in Reqs :
        (req[r].delivered /\ req[r].error = "edit")
        => /\ req[r].pc # "failed"
           /\ req[r].pc = "done" => req[r].calls >= 1
\* C37: any two progress edits of one transfer that reach the transport are
\* at least five seconds apart, also when the callbacks of the transfer run
\* in different threads
C37_EditsFiveSecondsApart ==
    \A t \in Threads, u \in Threads :
        \A a \in req[t].sent, b \in req[u].sent :
            (req[t].key = req[u].key /\ (t # u \/ a # b))
            => (a - b >= wait_seconds \/ b - a >= wait_seconds)

\* C38: while a progress edit of one transfer is with the transport, no
\* progress callback of another transfer waits for it
C38_LimiterLocalToTransfer ==
    \A t \in Threads, u \in Threads :
        (req[t].pc = "func" /\ req[t].key # req[u].key)
        => ~(req[u].pc = "lock" /\ lock = t)
\* C39: after a split upload of n parts has completed, the last part is the
\* only one that carries the full caption; every earlier part carries its
\* part label alone
C39_OnlyLastPartHasCaption ==
    \A r \in Reqs :
        req[r].pc = "done"
        => /\ req[r].sent_messages[req[r].num_parts] = "full"
           /\ \A k \in 1..(req[r].num_parts - 1) : req[r].sent_messages[k] = "label"
\* C40: a file larger than the per-file limit and within the hard ceiling
\* is split into ceil(size / 1.9 GiB) >= 2 parts; the parts cover
\* consecutive intervals of equal length that add up to the whole
\* duration, and every part is smaller than the per-file limit
C40_SplitPartsBelowLimit ==
    \A r \in Reqs :
        req[r].pc = "done"
        => LET parts == req[r].parts
               n == Len(parts)
           IN  /\ n = ceil_parts(file_size(req[r].video))
               /\ n >= 2
               /\ parts[1].start_time = 0
               /\ \A i \in 1..(n - 1) :
                      /\ parts[i + 1].start_time = parts[i].start_time + parts[i].t
                      /\ parts[i + 1].t = parts[i].t
               /\ parts[n].start_time + parts[n].t = duration
               /\ \A i \in 1..n : parts[i].size < TG_NORMAL_MAX_SIZE * SizeUnit
====
